---------------------------- MODULE Spec2Model ----------------------------
(***************************************************************************)
(* Model of the response-ingestion pipeline of the Scientific Poster       *)
(* Designer: extractBalancedJSON, JSON.parse, the fallback repair pass,    *)
(* sanitizeData and parseJsonResponse (src/hooks/useHistory.ts, later      *)
(* generation; src/services/geminiService.ts, earlier generation).         *)
(*                                                                         *)
(* JavaScript strings are TLA+ strings (Len, SubSeq and \o act on them).   *)
(* JavaScript values are tagged records:                                   *)
(*   [t |-> "undefined"]            [t |-> "null"]                         *)
(*   [t |-> "string",  s |-> "..."] [t |-> "number", n |-> 1]              *)
(*   [t |-> "boolean", b |-> TRUE]  [t |-> "array",  a |-> << ... >>]      *)
(*   [t |-> "object",  f |-> [name |-> value, ...]]                        *)
(***************************************************************************)
EXTENDS Integers, Sequences, FiniteSets, TLC

VARIABLES
    sPc,        \* sanitizeData runs: "start", "once", "twice"
    sData,      \* the parsed candidate handed to sanitizeData
    sOut,       \* result of sanitizeData(sData)
    sOut2,      \* result of sanitizeData(sOut.doc)
    pPc,        \* parseJsonResponse: "START", "STRICT_PARSE", "NORMALIZE",
                \* "RETRY_WITH_REPAIR", "REPARSE", "RENORMALIZE", "SUCCESS", "FAILURE"
    pOrigin,    \* how the reply was made: [kind, doc, at]
    pText,      \* the raw model reply
    pClean,     \* cleanText after fence stripping and extractBalancedJSON
    pFixed,     \* fixedText, the text the repair pass produced
    pRaw,       \* rawData, the value the last JSON.parse returned
    pStrict,    \* outcome of the first JSON.parse: "none", "ok", "threw"
    pRepairRan, \* TRUE once the catch block ran the repair rules
    pParses,    \* number of JSON.parse calls so far
    pResult,    \* what parseJsonResponse returned
    xPc,        \* extractBalancedJSON: "begin", "scan", "done"
    xGen,       \* the generation of the extractor: "later", "earlier"
    xStr,       \* str, the text handed to extractBalancedJSON
    xI,         \* the loop index i, counted from the first opening brace
    xScan,      \* the loop state: stack or counters, inString, escape
    xOut,       \* what extractBalancedJSON returned
    hPast,      \* useHistory: history.past
    hPresent,   \* useHistory: history.present
    hFuture,    \* useHistory: history.future
    hOp,        \* the last operation called on the history: [op, arg]
    hPrev,      \* the history before the last operation
    hMark,      \* the present at the last snapshot, live while only updates follow
    aVersions,  \* App: versions
    aIndex,     \* App: currentVersionIndex (0-based)
    aChat,      \* App: chatSession is set
    aLoading,   \* App: isLoading
    aEditing,   \* App: isEditing
    aPending,   \* App: the requests in flight, each with the values its closure holds
    aDocs,      \* App: number of documents made so far
    aReset,     \* App: Start Over was pressed and no Generate submitted since
    aLast,      \* App: the handler or continuation that ran last
    dSections,  \* PosterDisplay: sections
    dDragged,   \* PosterDisplay: draggedId
    dTarget,    \* PosterDisplay: dropTarget
    dPrev,      \* PosterDisplay: sections before the last drop
    dDrop       \* PosterDisplay: the last drop: [handler, dragged, target, column]

vars == <<sPc, sData, sOut, sOut2, pPc, pOrigin, pText, pClean, pFixed, pRaw, pStrict,
          pRepairRan, pParses, pResult, xPc, xGen, xStr, xI, xScan, xOut,
          hPast, hPresent, hFuture, hOp, hPrev, hMark,
          aVersions, aIndex, aChat, aLoading, aEditing, aPending, aDocs, aReset, aLast,
          dSections, dDragged, dTarget, dPrev, dDrop>>

sVars == <<sPc, sData, sOut, sOut2>>
pVars == <<pPc, pOrigin, pText, pClean, pFixed, pRaw, pStrict, pRepairRan, pParses,
           pResult>>
xVars == <<xPc, xGen, xStr, xI, xScan, xOut>>
hVars == <<hPast, hPresent, hFuture, hOp, hPrev, hMark>>
aVars == <<aVersions, aIndex, aChat, aLoading, aEditing, aPending, aDocs, aReset, aLast>>
dVars == <<dSections, dDragged, dTarget, dPrev, dDrop>>
uiVars == <<hVars, aVars, dVars>>

----------------------------------------------------------------------------
(* JavaScript strings *)

Min(a, b) == IF a < b THEN a ELSE b
Max(a, b) == IF a > b THEN a ELSE b

Ch(s, i) == SubSeq(s, i, i)

\* the least member of a non-empty set of numbers
MinOf(S) == CHOOSE x \in S : \A y \in S : x <= y

UpperChars == "ABCDEFGHIJKLMNOPQRSTUVWXYZ"
LowerChars == "abcdefghijklmnopqrstuvwxyz"
DigitChars == "0123456789"

CharSet(s) == {Ch(s, i) : i \in 1..Len(s)}
UpperSet == CharSet(UpperChars)
LowerSet == CharSet(LowerChars)
DigitSet == CharSet(DigitChars)

\* \s of a JavaScript regular expression and String.prototype.trim
IsSpace(c) == c \in {" ", "\t", "\n", "\r"}

LowerChar(c) ==
    IF c \in UpperSet
    THEN Ch(LowerChars, CHOOSE i \in 1..26 : Ch(UpperChars, i) = c)
    ELSE c

RECURSIVE toLowerCase(_)
toLowerCase(s) ==
    IF s = "" THEN ""
    ELSE LowerChar(Ch(s, 1)) \o toLowerCase(SubSeq(s, 2, Len(s)))

RECURSIVE trimStart(_)
trimStart(s) ==
    IF s # "" /\ IsSpace(Ch(s, 1)) THEN trimStart(SubSeq(s, 2, Len(s))) ELSE s

RECURSIVE trimEnd(_)
trimEnd(s) ==
    IF s # "" /\ IsSpace(Ch(s, Len(s))) THEN trimEnd(SubSeq(s, 1, Len(s) - 1)) ELSE s

trim(s) == trimEnd(trimStart(s))

\* hay.includes(needle)
includes(hay, needle) ==
    \E i \in 0..(Len(hay) - Len(needle)) : SubSeq(hay, i + 1, i + Len(needle)) = needle

\* s.substring(a, b) for 0 <= a <= b
substring(s, a, b) == SubSeq(s, a + 1, Min(b, Len(s)))

\* s.indexOf(c), 0-based, -1 when absent
indexOf(s, c) ==
    LET at(i) == SubSeq(s, i, i + Len(c) - 1) = c
        last  == Len(s) - Len(c) + 1
    IN  IF \E i \in 1..last : at(i)
        THEN (CHOOSE i \in 1..last : at(i) /\ \A j \in 1..(i - 1) : ~at(j)) - 1
        ELSE -1

\* index of the first character at or after i that is not white space
RECURSIVE SkipSpace(_, _)
SkipSpace(s, i) ==
    IF i <= Len(s) /\ IsSpace(Ch(s, i)) THEN SkipSpace(s, i + 1) ELSE i

\* s.replace(/column\s*/i, ''): the first match only
replaceColumnWord(s) ==
    LET low == toLowerCase(s)
        k   == indexOf(low, "column")
    IN  IF k = -1 THEN s
        ELSE SubSeq(s, 1, k) \o SubSeq(s, SkipSpace(s, k + 7), Len(s))

RECURSIVE NatToString(_)
NatToString(n) ==
    IF n < 10 THEN Ch(DigitChars, n + 1)
    ELSE NatToString(n \div 10) \o Ch(DigitChars, (n % 10) + 1)

----------------------------------------------------------------------------
(* JavaScript values *)

Undef   == [t |-> "undefined"]
Null    == [t |-> "null"]
Str(s)  == [t |-> "string", s |-> s]
Num(n)  == [t |-> "number", n |-> n]
Bool(b) == [t |-> "boolean", b |-> b]
Arr(a)  == [t |-> "array", a |-> a]
Obj(f)  == [t |-> "object", f |-> f]

NoFields == [k \in {} |-> Undef]

IsNullish(v) == v.t \in {"undefined", "null"}
IsString(v)  == v.t = "string"
IsArray(v)   == v.t = "array"          \* Array.isArray(v)
IsObject(v)  == v.t = "object"
TypeofObject(v) == v.t \in {"object", "array", "null"}   \* typeof v === 'object'

\* ToBoolean
Truthy(v) ==
    CASE v.t = "undefined" -> FALSE
      [] v.t = "null"      -> FALSE
      [] v.t = "string"    -> v.s # ""
      [] v.t = "number"    -> v.n # 0
      [] v.t = "boolean"   -> v.b
      [] OTHER             -> TRUE

\* v.k for a value that is not null or undefined (those throw)
Get(v, k) ==
    CASE v.t = "object" -> IF k \in DOMAIN v.f THEN v.f[k] ELSE Undef
      [] v.t = "array"  -> IF k = "length" THEN Num(Len(v.a)) ELSE Undef
      [] v.t = "string" -> IF k = "length" THEN Num(Len(v.s)) ELSE Undef
      [] OTHER          -> Undef

\* o.k = x on an object
SetField(o, k, x) ==
    Obj([n \in (DOMAIN o.f) \cup {k} |-> IF n = k THEN x ELSE o.f[n]])

\* delete o.k
DeleteField(o, k) == Obj([n \in (DOMAIN o.f) \ {k} |-> o.f[n]])

\* String(v)
RECURSIVE ToStr(_)
RECURSIVE JoinFrom(_, _)
JoinFrom(a, i) ==
    IF i > Len(a) THEN ""
    ELSE (IF i > 1 THEN "," ELSE "")
         \o (IF IsNullish(a[i]) THEN "" ELSE ToStr(a[i]))
         \o JoinFrom(a, i + 1)
ToStr(v) ==
    CASE v.t = "undefined" -> "undefined"
      [] v.t = "null"      -> "null"
      [] v.t = "string"    -> v.s
      [] v.t = "number"    -> IF v.n < 0 THEN "-" \o NatToString(-v.n) ELSE NatToString(v.n)
      [] v.t = "boolean"   -> IF v.b THEN "true" ELSE "false"
      [] v.t = "array"     -> JoinFrom(v.a, 1)
      [] OTHER             -> "[object Object]"

\* the own enumerable properties an object spread {...v} copies
SpreadFields(v) ==
    CASE v.t = "object" -> v.f
      [] v.t = "array"  -> [k \in {NatToString(i - 1) : i \in 1..Len(v.a)} |->
                              v.a[(CHOOSE i \in 1..Len(v.a) : NatToString(i - 1) = k)]]
      [] v.t = "string" -> [k \in {NatToString(i - 1) : i \in 1..Len(v.s)} |->
                              Str(Ch(v.s, (CHOOSE i \in 1..Len(v.s) : NatToString(i - 1) = k)))]
      [] OTHER          -> NoFields

\* {...a, ...b}
ObjectSpread(a, b) ==
    LET fa == SpreadFields(a)
        fb == SpreadFields(b)
    IN  Obj([k \in (DOMAIN fa) \cup (DOMAIN fb) |-> IF k \in DOMAIN fb THEN fb[k] ELSE fa[k]])

\* whether [...v] works, and the elements it yields
IsIterable(v) == v.t \in {"array", "string"}
SpreadElems(v) ==
    IF v.t = "array" THEN v.a ELSE [i \in 1..Len(v.s) |-> Str(Ch(v.s, i))]


----------------------------------------------------------------------------
(* sanitizeData, later generation (title-merge) *)

defaultTheme ==
    Obj([backgroundColor        |-> Str("#F0F4F8"),
         headerColor            |-> Str("#2C3E50"),
         titleColor             |-> Str("#FFFFFF"),
         headingColor           |-> Str("#1A5276"),
         textColor              |-> Str("#34495E"),
         accentColor            |-> Str("#3498DB"),
         sectionBackgroundColor |-> Str("#FFFFFF"),
         sectionBodyColor       |-> Str("#34495E")])

defaultContactInfo ==
    Obj([email |-> Str(""), phone |-> Str(""), location |-> Str(""),
         website |-> Str(""), qrCodeUrl |-> Str("")])

defaultData ==
    Obj([title        |-> Str("Untitled Poster"),
         authors      |-> Arr(<<>>),
         university   |-> Str("Unknown University"),
         department   |-> Str("Unknown Department"),
         theme        |-> defaultTheme,
         sections     |-> Arr(<<>>),
         contactInfo  |-> defaultContactInfo,
         leftLogoUrl  |-> Str(""),
         rightLogoUrl |-> Str(""),
         warnings     |-> Arr(<<>>)])

\* a step of the section loop either throws a TypeError or yields the section
Thrown == [threw |-> TRUE, section |-> Undef]
Yield(section) == [threw |-> FALSE, section |-> section]

\* the time part of a generated id: Date.now() read during the call
NowStamp == "1730000000000"

\* section-${Math.random().toString(36).substr(2, 9)}-${Date.now()}
generatedId(randomPart) == "section-" \o randomPart \o "-" \o NowStamp

\* an array among the sections takes properties like any object
AsObject(section) == IF IsArray(section) THEN Obj(SpreadFields(section)) ELSE section

\* 1. Ensure ID exists.  Reading .id of null or undefined throws; assigning
\*    .id on a number, string or boolean throws in module (strict) code.
ensureId(section, randomPart) ==
    IF IsNullish(section) THEN Thrown
    ELSE IF Truthy(Get(section, "id")) THEN Yield(AsObject(section))
    ELSE IF IsObject(section) \/ IsArray(section)
         THEN Yield(SetField(AsObject(section), "id", Str(generatedId(randomPart))))
         ELSE Thrown

\* section.title?.toLowerCase() || '' ; a title that is neither nullish nor a
\* string has no toLowerCase and the call throws
titleLowerOf(section) ==
    LET title == Get(section, "title")
    IN  IF IsNullish(title) THEN [threw |-> FALSE, s |-> ""]
        ELSE IF IsString(title) THEN [threw |-> FALSE, s |-> toLowerCase(title.s)]
        ELSE [threw |-> TRUE, s |-> ""]

\* the keyword list without 'abstract'
ColumnOneKeywordsNoAbstract == {"intro", "method", "objective"}

ColumnOneKeywords == {"abstract", "intro", "method", "objective"}

\* sanitizeColumn without the replace(/column\s*/i, '')
sanitizeColumnKeepWord(section) ==
    LET col == trim(ToStr(Get(section, "column")))
    IN  IF col \in {"1", "2"} THEN Yield(SetField(section, "column", Str(col)))
        ELSE LET tl == titleLowerOf(section)
             IN  IF tl.threw THEN Thrown
                 ELSE IF \E kw \in ColumnOneKeywords : includes(tl.s, kw)
                      THEN Yield(SetField(section, "column", Str("1")))
                      ELSE Yield(SetField(section, "column", Str("2")))

\* 2. Sanitize Column
sanitizeColumn(section) ==
    LET col == trim(replaceColumnWord(ToStr(Get(section, "column"))))
    IN  IF col \in {"1", "2"} THEN Yield(SetField(section, "column", Str(col)))
        ELSE LET tl == titleLowerOf(section)
             IN  IF tl.threw THEN Thrown
                 ELSE IF \E kw \in ColumnOneKeywords : includes(tl.s, kw)
                      THEN Yield(SetField(section, "column", Str("1")))
                      ELSE Yield(SetField(section, "column", Str("2")))

\* normalizeVisuals without the delete of section.visual
normalizeVisualsKeepLegacy(section) ==
    LET visual == Get(section, "visual")
        s1 == IF Truthy(visual) /\ ~Truthy(Get(section, "visuals"))
              THEN SetField(section, "visuals", Arr(<<>>)) ELSE section
        canPush == IsArray(Get(s1, "visuals"))
        s2 == IF Truthy(visual) /\ canPush
              THEN SetField(s1, "visuals", Arr(Append(Get(s1, "visuals").a, visual)))
              ELSE s1
        s3 == IF ~Truthy(Get(s2, "visuals")) THEN SetField(s2, "visuals", Arr(<<>>)) ELSE s2
    IN  IF Truthy(visual) /\ ~canPush THEN Thrown ELSE Yield(s3)

\* 3. Normalize Visuals to Array
normalizeVisuals(section) ==
    LET visual == Get(section, "visual")
        s1 == IF Truthy(visual) /\ ~Truthy(Get(section, "visuals"))
              THEN SetField(section, "visuals", Arr(<<>>)) ELSE section
        canPush == IsArray(Get(s1, "visuals"))
        s2 == IF Truthy(visual) /\ canPush
              THEN DeleteField(SetField(s1, "visuals",
                                        Arr(Append(Get(s1, "visuals").a, visual))),
                               "visual")
              ELSE s1
        s3 == IF ~Truthy(Get(s2, "visuals")) THEN SetField(s2, "visuals", Arr(<<>>)) ELSE s2
    IN  IF Truthy(visual) /\ ~canPush THEN Thrown ELSE Yield(s3)

\* normalizedTitleOf without toLowerCase()
normalizedTitleNoFold(section) ==
    LET title == Get(section, "title")
    IN  IF IsNullish(title) THEN [threw |-> FALSE, key |-> Undef]
        ELSE IF IsString(title)
             THEN [threw |-> FALSE, key |-> Str(trim(title.s))]
             ELSE [threw |-> TRUE, key |-> Undef]

\* section.title?.trim().toLowerCase(): undefined for a nullish title
normalizedTitleOf(section) ==
    LET title == Get(section, "title")
    IN  IF IsNullish(title) THEN [threw |-> FALSE, key |-> Undef]
        ELSE IF IsString(title)
             THEN [threw |-> FALSE, key |-> Str(toLowerCase(trim(title.s)))]
             ELSE [threw |-> TRUE, key |-> Undef]

\* how many leading characters of the new content are searched for
ContentProbeLen == 50

\* section.content && !existingSection.content.includes(section.content.substring(0, 50))
\* yields threw / append
contentTest(existingSection, section) ==
    LET new == Get(section, "content")
        old == Get(existingSection, "content")
    IN  IF ~Truthy(new) THEN [threw |-> FALSE, append |-> FALSE]
        ELSE IF IsNullish(old) \/ ~IsString(new) THEN [threw |-> TRUE, append |-> FALSE]
        ELSE IF IsString(old)
             THEN [threw |-> FALSE,
                   append |-> ~includes(old.s, substring(new.s, 0, ContentProbeLen))]
        ELSE IF IsArray(old)
             THEN [threw |-> FALSE,
                   append |-> ~(\E i \in 1..Len(old.a) :
                                   old.a[i] = Str(substring(new.s, 0, ContentProbeLen)))]
        ELSE [threw |-> TRUE, append |-> FALSE]

\* existingSection.content += "\n\n" + section.content
appendContent(existingSection, section) ==
    SetField(existingSection, "content",
             Str(ToStr(Get(existingSection, "content")) \o "\n\n" \o Get(section, "content").s))

\* section.visuals && section.visuals.length > 0
hasVisuals(section) ==
    LET v == Get(section, "visuals")
        n == Get(v, "length")
    IN  Truthy(v) /\ n.t = "number" /\ n.n > 0

\* appendVisuals that replaces the retained visuals by the later section's
appendVisualsOverwrite(existingSection, section) ==
    LET new == Get(section, "visuals")
    IN  IF IsIterable(new)
        THEN Yield(SetField(existingSection, "visuals", Arr(SpreadElems(new))))
        ELSE Thrown

\* existingSection.visuals = [...(existingSection.visuals || []), ...section.visuals]
appendVisuals(existingSection, section) ==
    LET old == IF Truthy(Get(existingSection, "visuals"))
               THEN Get(existingSection, "visuals") ELSE Arr(<<>>)
        new == Get(section, "visuals")
    IN  IF IsIterable(old) /\ IsIterable(new)
        THEN Yield(SetField(existingSection, "visuals",
                            Arr(SpreadElems(old) \o SpreadElems(new))))
        ELSE Thrown

\* the merge of a later section into the retained one
mergeInto(existingSection, section) ==
    LET ct == contentTest(existingSection, section)
        e1 == IF ct.append THEN appendContent(existingSection, section) ELSE existingSection
    IN  IF ct.threw THEN Thrown
        ELSE IF hasVisuals(section) THEN appendVisuals(e1, section)
        ELSE Yield(e1)

\* titleMap.has(normalizedTitle): titleMap is kept as the list of keys of
\* uniqueSections, entry i being the key under which uniqueSections[i] was set
titleMapHas(keys, key) == \E i \in 1..Len(keys) : keys[i] = key
titleMapGet(keys, key) == CHOOSE i \in 1..Len(keys) : keys[i] = key

LoopThrown == [threw |-> TRUE, uniqueSections |-> <<>>, keys |-> <<>>]

\* mergeOrAdd that puts a section with a new title in front (unshift for push)
mergeOrAddInFront(acc, section) ==
    LET nt == normalizedTitleOf(section)
    IN  IF nt.threw THEN LoopThrown
        ELSE IF titleMapHas(acc.keys, nt.key)
        THEN LET i == titleMapGet(acc.keys, nt.key)
                 m == mergeInto(acc.uniqueSections[i], section)
             IN  IF m.threw THEN LoopThrown
                 ELSE [acc EXCEPT !.uniqueSections[i] = m.section]
        ELSE [threw |-> FALSE,
              uniqueSections |-> <<section>> \o acc.uniqueSections,
              keys |-> <<nt.key>> \o acc.keys]

\* 4. MERGING LOGIC based on TITLE
mergeOrAdd(acc, section) ==
    LET nt == normalizedTitleOf(section)
    IN  IF nt.threw THEN LoopThrown
        ELSE IF titleMapHas(acc.keys, nt.key)
        THEN LET i == titleMapGet(acc.keys, nt.key)
                 m == mergeInto(acc.uniqueSections[i], section)
             IN  IF m.threw THEN LoopThrown
                 ELSE [acc EXCEPT !.uniqueSections[i] = m.section]
        ELSE [threw |-> FALSE,
              uniqueSections |-> Append(acc.uniqueSections, section),
              keys |-> Append(acc.keys, nt.key)]

\* the body of mergedData.sections.forEach
processSection(acc, section, randomPart) ==
    LET a == ensureId(section, randomPart)
        b == IF a.threw THEN Thrown ELSE sanitizeColumn(a.section)
        c == IF b.threw THEN Thrown ELSE normalizeVisuals(b.section)
    IN  IF c.threw THEN LoopThrown ELSE mergeOrAdd(acc, c.section)

RECURSIVE forEachSection(_, _, _, _)
forEachSection(acc, sections, i, gen) ==
    IF acc.threw \/ i > Len(sections) THEN acc
    ELSE forEachSection(processSection(acc, sections[i], gen[i]), sections, i + 1, gen)

SanitizeThrew == [threw |-> TRUE, doc |-> Undef]
SanitizeReturn(doc) == [threw |-> FALSE, doc |-> doc]

\* sanitizeData(data); gen[i] is the random part Math.random() yields if
\* section i needs an id
sanitizeData(data, gen) ==
    IF ~Truthy(data) \/ ~TypeofObject(data) THEN SanitizeReturn(defaultData)
    ELSE
    LET m0 == ObjectSpread(defaultData, data)
        m1 == IF Truthy(Get(data, "theme"))
              THEN SetField(m0, "theme", ObjectSpread(defaultTheme, Get(data, "theme")))
              ELSE m0
        m2 == IF Truthy(Get(data, "contactInfo"))
              THEN SetField(m1, "contactInfo",
                            ObjectSpread(defaultContactInfo, Get(data, "contactInfo")))
              ELSE m1
        m3 == IF Truthy(Get(data, "warnings")) /\ IsArray(Get(data, "warnings"))
              THEN SetField(m2, "warnings", Get(data, "warnings"))
              ELSE m2
        mergedData == IF ~Truthy(Get(m3, "sections")) \/ ~IsArray(Get(m3, "sections"))
                      THEN SetField(m3, "sections", Arr(<<>>))
                      ELSE m3
        loop == forEachSection([threw |-> FALSE, uniqueSections |-> <<>>, keys |-> <<>>],
                               Get(mergedData, "sections").a, 1, gen)
    IN  IF loop.threw THEN SanitizeThrew
        ELSE SanitizeReturn(SetField(mergedData, "sections", Arr(loop.uniqueSections)))

----------------------------------------------------------------------------
(* sanitizeData, earlier generation (title and content fingerprint) *)

\* ${value?.trim().toLowerCase()} inside the template literal: undefined is
\* rendered as "undefined"; a value that is neither nullish nor a string has no
\* trim and the call throws
fingerprintPart(value) ==
    IF IsNullish(value) THEN [threw |-> FALSE, s |-> "undefined"]
    ELSE IF IsString(value) THEN [threw |-> FALSE, s |-> toLowerCase(trim(value.s))]
    ELSE [threw |-> TRUE, s |-> ""]

\* 3. Create fingerprint (Title + Content) to detect duplicates
fingerprintOf(section) ==
    LET t == fingerprintPart(Get(section, "title"))
        c == fingerprintPart(Get(section, "content"))
    IN  [threw |-> t.threw \/ c.threw, s |-> t.s \o "|" \o c.s]

EarlierThrown == [threw |-> TRUE, uniqueSections |-> <<>>, seen |-> {}]

\* the body of data.sections.forEach.  Reading .column of null or undefined
\* throws; assigning .column on a number, string or boolean throws in module
\* (strict) code.
processSectionEarlier(acc, section) ==
    LET a  == IF IsObject(section) \/ IsArray(section)
              THEN sanitizeColumn(AsObject(section)) ELSE Thrown
        b  == IF a.threw THEN Thrown ELSE normalizeVisuals(a.section)
        fp == fingerprintOf(b.section)
    IN  IF b.threw \/ fp.threw THEN EarlierThrown
        ELSE IF fp.s \in acc.seen THEN acc
        ELSE [threw |-> FALSE,
              uniqueSections |-> Append(acc.uniqueSections, b.section),
              seen |-> acc.seen \cup {fp.s}]

RECURSIVE forEachSectionEarlier(_, _, _)
forEachSectionEarlier(acc, sections, i) ==
    IF acc.threw \/ i > Len(sections) THEN acc
    ELSE forEachSectionEarlier(processSectionEarlier(acc, sections[i]), sections, i + 1)

\* sanitizeData(data) of the earlier generation: data itself is returned
sanitizeDataEarlier(data) ==
    IF ~Truthy(data) \/ ~Truthy(Get(data, "sections")) \/ ~IsArray(Get(data, "sections"))
    THEN SanitizeReturn(data)
    ELSE LET loop == forEachSectionEarlier(
                         [threw |-> FALSE, uniqueSections |-> <<>>, seen |-> {}],
                         Get(data, "sections").a, 1)
         IN  IF loop.threw THEN SanitizeThrew
             ELSE SanitizeReturn(SetField(data, "sections", Arr(loop.uniqueSections)))


----------------------------------------------------------------------------
(* extractBalancedJSON, later generation (closer stack) *)

\* scanChar in which a backslash does not set escape
scanCharNoEscape(c, stack, inString, escape) ==
    IF inString
    THEN IF c = "\"" THEN [stack |-> stack, inString |-> FALSE, escape |-> FALSE]
         ELSE [stack |-> stack, inString |-> TRUE, escape |-> FALSE]
    ELSE IF c = "\"" THEN [stack |-> stack, inString |-> TRUE, escape |-> escape]
         ELSE IF c = "{" THEN [stack |-> Append(stack, "}"), inString |-> FALSE, escape |-> escape]
         ELSE IF c = "[" THEN [stack |-> Append(stack, "]"), inString |-> FALSE, escape |-> escape]
         ELSE IF c \in {"}", "]"} /\ Len(stack) > 0 /\ stack[Len(stack)] = c
              THEN [stack |-> SubSeq(stack, 1, Len(stack) - 1),
                    inString |-> FALSE, escape |-> escape]
         ELSE [stack |-> stack, inString |-> FALSE, escape |-> escape]

\* one step of the scanner loop on character c: the new stack, inString, escape
scanChar(c, stack, inString, escape) ==
    IF inString
    THEN IF escape THEN [stack |-> stack, inString |-> TRUE, escape |-> FALSE]
         ELSE IF c = "\\" THEN [stack |-> stack, inString |-> TRUE, escape |-> TRUE]
         ELSE IF c = "\"" THEN [stack |-> stack, inString |-> FALSE, escape |-> FALSE]
         ELSE [stack |-> stack, inString |-> TRUE, escape |-> FALSE]
    ELSE IF c = "\"" THEN [stack |-> stack, inString |-> TRUE, escape |-> escape]
         ELSE IF c = "{" THEN [stack |-> Append(stack, "}"), inString |-> FALSE, escape |-> escape]
         ELSE IF c = "[" THEN [stack |-> Append(stack, "]"), inString |-> FALSE, escape |-> escape]
         ELSE IF c \in {"}", "]"} /\ Len(stack) > 0 /\ stack[Len(stack)] = c
              THEN [stack |-> SubSeq(stack, 1, Len(stack) - 1),
                    inString |-> FALSE, escape |-> escape]
         ELSE [stack |-> stack, inString |-> FALSE, escape |-> escape]

\* one iteration of the for loop, at index i (0-based): once the loop has
\* returned (complete), later iterations do nothing
scanIteration(jsonStr, i, sc) ==
    IF sc.complete THEN sc
    ELSE LET st == scanChar(Ch(jsonStr, i + 1), sc.stack, sc.inString, sc.escape)
         IN  [complete |-> Len(st.stack) = 0 /\ i > 0, at |-> i, stack |-> st.stack,
              inString |-> st.inString, escape |-> st.escape]

\* the iterations lo .. hi - 1 of the for loop in order, from loop state sc
\* (the range is halved so that the evaluation stays shallow)
RECURSIVE scanFrom(_, _, _, _)
scanFrom(jsonStr, lo, hi, sc) ==
    IF sc.complete \/ lo >= hi THEN sc
    ELSE IF hi = lo + 1 THEN scanIteration(jsonStr, lo, sc)
    ELSE LET mid == (lo + hi) \div 2
         IN  scanFrom(jsonStr, mid, hi, scanFrom(jsonStr, lo, mid, sc))

\* let stack = [], inString = false, escape = false
scanStart ==
    [complete |-> FALSE, at |-> 0, stack |-> <<>>, inString |-> FALSE, escape |-> FALSE]

\* the closers appended outermost first: stack.shift() in place of stack.pop()
RECURSIVE popAllForward(_)
popAllForward(stack) ==
    IF Len(stack) = 0 THEN ""
    ELSE stack[1] \o popAllForward(SubSeq(stack, 2, Len(stack)))

\* while (stack.length > 0) repaired += stack.pop()
RECURSIVE popAll(_)
popAll(stack) ==
    IF Len(stack) = 0 THEN ""
    ELSE stack[Len(stack)] \o popAll(SubSeq(stack, 1, Len(stack) - 1))

\* the closing quote appended after the closers instead of before them
repairSuffixQuoteLast(inString, stack) ==
    popAll(stack) \o (IF inString THEN "\"" ELSE "")

\* the suffix the auto-repair appends
repairSuffix(inString, stack) == (IF inString THEN "\"" ELSE "") \o popAll(stack)

\* the whole rest of the text returned in place of the completed object
completedObjectToEnd(jsonStr, i) == jsonStr

\* return str.substring(start, start + i + 1)
completedObject(jsonStr, i) == SubSeq(jsonStr, 1, i + 1)

extractBalancedJSON(str) ==
    LET start == indexOf(str, "{")
    IN  IF start = -1 THEN str
        ELSE LET jsonStr == SubSeq(str, start + 1, Len(str))
                 sc      == scanFrom(jsonStr, 0, Len(jsonStr), scanStart)
             IN  IF sc.complete THEN completedObject(jsonStr, sc.at)
                 ELSE jsonStr \o repairSuffix(sc.inString, sc.stack)

\* the grave accent, which a string of this module cannot hold, is written ~
Fence == "~~~"

\* s.replace(/word/gi, ''): every occurrence, letter case ignored
\* s.replace(/word/gi, '') from index i on: every occurrence of word, in any
\* letter case, is removed, leftmost first
RECURSIVE removeAllFold(_, _, _)
removeAllFold(s, i, word) ==
    LET hits == {j \in i..(Len(s) - Len(word) + 1) :
                    toLowerCase(SubSeq(s, j, j + Len(word) - 1)) = word}
        j    == MinOf(hits)
    IN  IF hits = {} THEN SubSeq(s, i, Len(s))
        ELSE SubSeq(s, i, j - 1) \o removeAllFold(s, j + Len(word), word)

\* text.replace(/(fence)json/gi, '').replace(/(fence)/g, '').trim()
stripFences(text) ==
    trim(removeAllFold(removeAllFold(text, 1, Fence \o "json"), 1, Fence))

----------------------------------------------------------------------------
(* JSON.parse *)

ParseFail == [ok |-> FALSE, v |-> Undef, i |-> 0]
Parsed(v, i) == [ok |-> TRUE, v |-> v, i |-> i]

HexSet == DigitSet \cup CharSet("abcdefABCDEF")

\* the character a two-character escape stands for; \b, \f and \uXXXX are
\* kept as their escape text, the module having no literal for them
unescape(c) ==
    CASE c = "n" -> "\n"
      [] c = "t" -> "\t"
      [] c = "r" -> "\r"
      [] c = "b" -> "\\b"
      [] c = "f" -> "\\f"
      [] OTHER   -> c

\* the body of a string literal from index i (after the opening quote):
\* the decoded string and the index after the closing quote
RECURSIVE parseStringBody(_, _, _)
parseStringBody(s, i, acc) ==
    IF i > Len(s) THEN ParseFail
    ELSE LET c == Ch(s, i)
         IN  IF c = "\"" THEN Parsed(Str(acc), i + 1)
             ELSE IF c \in {"\n", "\t", "\r"} THEN ParseFail
             ELSE IF c = "\\"
                  THEN IF i + 1 > Len(s) THEN ParseFail
                       ELSE LET e == Ch(s, i + 1)
                            IN  IF e \in {"\"", "\\", "/", "b", "f", "n", "r", "t"}
                                THEN parseStringBody(s, i + 2, acc \o unescape(e))
                                ELSE IF e = "u" /\ i + 5 <= Len(s)
                                        /\ \A k \in 2..5 : Ch(s, i + k) \in HexSet
                                     THEN parseStringBody(s, i + 6,
                                                          acc \o SubSeq(s, i, i + 5))
                                     ELSE ParseFail
             ELSE parseStringBody(s, i + 1, acc \o c)

\* index of the first character at or after i that is not a digit
RECURSIVE skipDigits(_, _)
skipDigits(s, i) ==
    IF i <= Len(s) /\ Ch(s, i) \in DigitSet THEN skipDigits(s, i + 1) ELSE i

DigitValue(c) == (CHOOSE k \in 1..10 : Ch(DigitChars, k) = c) - 1

RECURSIVE digitsValue(_, _, _, _)
digitsValue(s, i, j, acc) ==
    IF i >= j THEN acc ELSE digitsValue(s, i + 1, j, acc * 10 + DigitValue(Ch(s, i)))

\* -?(0|[1-9][0-9]*)(\.[0-9]+)?([eE][+-]?[0-9]+)? ; the value kept is the
\* integer part
parseNumber(s, i) ==
    LET neg    == i <= Len(s) /\ Ch(s, i) = "-"
        d0     == IF neg THEN i + 1 ELSE i
        d1     == IF d0 <= Len(s) /\ Ch(s, d0) = "0" THEN d0 + 1 ELSE skipDigits(s, d0)
        hasDot == d1 <= Len(s) /\ Ch(s, d1) = "."
        f1     == IF hasDot THEN skipDigits(s, d1 + 1) ELSE d1
        hasExp == f1 <= Len(s) /\ Ch(s, f1) \in {"e", "E"}
        e0     == IF hasExp /\ f1 + 1 <= Len(s) /\ Ch(s, f1 + 1) \in {"+", "-"}
                  THEN f1 + 2 ELSE f1 + 1
        e1     == IF hasExp THEN skipDigits(s, e0) ELSE f1
        n      == digitsValue(s, d0, d1, 0)
    IN  IF d1 = d0 \/ (hasDot /\ f1 = d1 + 1) \/ (hasExp /\ e1 = e0) THEN ParseFail
        ELSE Parsed(Num(IF neg THEN -n ELSE n), e1)

startsWith(s, i, word) ==
    i + Len(word) - 1 <= Len(s) /\ SubSeq(s, i, i + Len(word) - 1) = word

RECURSIVE parseValue(_, _)
RECURSIVE parseMembers(_, _, _)
RECURSIVE parseElements(_, _, _)

\* the members of an object from index i, which is at a key; f holds the
\* members read so far (a repeated key keeps the last value)
parseMembers(s, i, f) ==
    IF i > Len(s) \/ Ch(s, i) # "\"" THEN ParseFail
    ELSE LET key == parseStringBody(s, i + 1, "")
         IN  IF ~key.ok THEN ParseFail
             ELSE LET c == SkipSpace(s, key.i)
                  IN  IF c > Len(s) \/ Ch(s, c) # ":" THEN ParseFail
                      ELSE LET val == parseValue(s, SkipSpace(s, c + 1))
                           IN  IF ~val.ok THEN ParseFail
                               ELSE LET g == [n \in (DOMAIN f) \cup {key.v.s} |->
                                                IF n = key.v.s THEN val.v ELSE f[n]]
                                        d == SkipSpace(s, val.i)
                                    IN  IF d > Len(s) THEN ParseFail
                                        ELSE IF Ch(s, d) = "}" THEN Parsed(Obj(g), d + 1)
                                        ELSE IF Ch(s, d) = ","
                                             THEN parseMembers(s, SkipSpace(s, d + 1), g)
                                        ELSE ParseFail

\* the elements of an array from index i, which is at a value
parseElements(s, i, a) ==
    LET val == parseValue(s, i)
    IN  IF ~val.ok THEN ParseFail
        ELSE LET d == SkipSpace(s, val.i)
             IN  IF d > Len(s) THEN ParseFail
                 ELSE IF Ch(s, d) = "]" THEN Parsed(Arr(Append(a, val.v)), d + 1)
                 ELSE IF Ch(s, d) = ","
                      THEN parseElements(s, SkipSpace(s, d + 1), Append(a, val.v))
                 ELSE ParseFail

\* a value that starts at index i
parseValue(s, i) ==
    IF i > Len(s) THEN ParseFail
    ELSE LET c == Ch(s, i)
         IN  CASE c = "{" ->
                    LET j == SkipSpace(s, i + 1)
                    IN  IF j <= Len(s) /\ Ch(s, j) = "}" THEN Parsed(Obj(NoFields), j + 1)
                        ELSE parseMembers(s, j, NoFields)
               [] c = "[" ->
                    LET j == SkipSpace(s, i + 1)
                    IN  IF j <= Len(s) /\ Ch(s, j) = "]" THEN Parsed(Arr(<<>>), j + 1)
                        ELSE parseElements(s, j, <<>>)
               [] c = "\"" -> parseStringBody(s, i + 1, "")
               [] c = "t" -> IF startsWith(s, i, "true") THEN Parsed(Bool(TRUE), i + 4)
                             ELSE ParseFail
               [] c = "f" -> IF startsWith(s, i, "false") THEN Parsed(Bool(FALSE), i + 5)
                             ELSE ParseFail
               [] c = "n" -> IF startsWith(s, i, "null") THEN Parsed(Null, i + 4)
                             ELSE ParseFail
               [] c = "-" \/ c \in DigitSet -> parseNumber(s, i)
               [] OTHER -> ParseFail

\* JSON.parse(text): a value, or a SyntaxError
jsonParse(text) ==
    LET r == parseValue(text, SkipSpace(text, 1))
    IN  IF r.ok /\ SkipSpace(text, r.i) > Len(text)
        THEN [threw |-> FALSE, v |-> r.v]
        ELSE [threw |-> TRUE, v |-> Undef]

----------------------------------------------------------------------------
(* The fallback repair pass: the regular-expression rewrites of the catch block *)

knownKeys ==
    {"title", "authors", "university", "department", "rightLogoUrl", "leftLogoUrl",
     "theme", "sections", "contactInfo",
     "backgroundColor", "headerColor", "titleColor", "headingColor", "textColor",
     "accentColor", "sectionBackgroundColor", "sectionBodyColor",
     "content", "column", "visuals",
     "type", "items", "labels", "datasets", "url", "caption", "style", "headers", "rows",
     "value", "color", "data",
     "email", "phone", "location", "website", "qrCodeUrl",
     "design", "icon", "variant", "customColor", "warnings"}

AlnumSet == UpperSet \cup LowerSet \cup DigitSet
PunctSet == {".", ",", ";", "!", "?"}

NoMatch == [len |-> 0, rep |-> ""]
Matched(len, rep) == [len |-> len, rep |-> rep]

At(s, i) == IF i >= 1 /\ i <= Len(s) THEN Ch(s, i) ELSE ""

\* index of the first line terminator at or after i, or Len(s) + 1
lineEnd(s, i) ==
    MinOf({j \in i..Len(s) : Ch(s, j) \in {"\n", "\r"}} \cup {Len(s) + 1})

\* "(key)": at index i, for a key among knownKeys: the key, or "" if none
keyAt(s, i) ==
    IF At(s, i) # "\"" THEN ""
    ELSE LET hits == {k \in knownKeys : startsWith(s, i + 1, k \o "\":")}
         IN  IF hits = {} THEN "" ELSE CHOOSE k \in hits : TRUE

\* (open)\s+"(key)": -> (open), "key":
matchBeforeKey(s, i, open) ==
    LET j == SkipSpace(s, i + 1)
        k == keyAt(s, j)
    IN  IF At(s, i) = open /\ j > i + 1 /\ k # ""
        THEN Matched(j - i + Len(k) + 3, open \o ", \"" \o k \o "\":")
        ELSE NoMatch

\* (first)(\s*)(any of nexts) -> first, $1next ; minSpace is 0 for \s*, 1 for \s+
matchInsertComma(s, i, firsts, minSpace, nexts) ==
    LET j == SkipSpace(s, i + 1)
    IN  IF At(s, i) \in firsts /\ j - (i + 1) >= minSpace /\ At(s, j) \in nexts
        THEN Matched(j - i + 1, Ch(s, i) \o ", " \o SubSeq(s, i + 1, j))
        ELSE NoMatch

\* (\d+|true|false|null)(\s+)" -> $1, $2"
matchValueQuote(s, i) ==
    LET e == IF At(s, i) \in DigitSet THEN skipDigits(s, i)
             ELSE IF startsWith(s, i, "true") THEN i + 4
             ELSE IF startsWith(s, i, "false") THEN i + 5
             ELSE IF startsWith(s, i, "null") THEN i + 4
             ELSE i
        j == SkipSpace(s, e)
    IN  IF e > i /\ j > e /\ At(s, j) = "\""
        THEN Matched(j - i + 1, SubSeq(s, i, e - 1) \o ", " \o SubSeq(s, e, j))
        ELSE NoMatch

\* (\d)\s+(\d) -> $1, $2
matchDigitDigit(s, i) ==
    LET j == SkipSpace(s, i + 1)
    IN  IF At(s, i) \in DigitSet /\ j > i + 1 /\ At(s, j) \in DigitSet
        THEN Matched(j - i + 1, Ch(s, i) \o ", " \o Ch(s, j))
        ELSE NoMatch

\* ,\s*([\]}]) -> $1
matchTrailingComma(s, i) ==
    LET j == SkipSpace(s, i + 1)
    IN  IF At(s, i) = "," /\ At(s, j) \in {"]", "}"}
        THEN Matched(j - i + 1, Ch(s, j))
        ELSE NoMatch

\* ([^\[\{\:,\s\\])\s*"\s*([^:,\}\]\s]) -> $1\"$2
matchInnerQuote(s, i) ==
    LET c1 == At(s, i)
        j  == SkipSpace(s, i + 1)
        k  == SkipSpace(s, j + 1)
        c2 == At(s, k)
    IN  IF /\ c1 # "" /\ c1 \notin {"[", "{", ":", ",", "\\"} /\ ~IsSpace(c1)
           /\ At(s, j) = "\""
           /\ c2 # "" /\ c2 \notin {":", ",", "}", "]"} /\ ~IsSpace(c2)
        THEN Matched(k - i + 1, c1 \o "\\\"" \o c2)
        ELSE NoMatch

\* ([a-zA-Z0-9.,;!?])\s+"([a-zA-Z0-9]) -> $1 \"$2
matchQuoteAfterText(s, i) ==
    LET j == SkipSpace(s, i + 1)
    IN  IF /\ At(s, i) \in AlnumSet \cup PunctSet /\ j > i + 1
           /\ At(s, j) = "\"" /\ At(s, j + 1) \in AlnumSet
        THEN Matched(j - i + 2, Ch(s, i) \o " \\\"" \o Ch(s, j + 1))
        ELSE NoMatch

\* ([a-zA-Z0-9])"\s+([a-zA-Z0-9.,;!?]) -> $1\" $2
matchQuoteBeforeText(s, i) ==
    LET j == SkipSpace(s, i + 2)
    IN  IF /\ At(s, i) \in AlnumSet /\ At(s, i + 1) = "\"" /\ j > i + 2
           /\ At(s, j) \in AlnumSet \cup PunctSet
        THEN Matched(j - i + 1, Ch(s, i) \o "\\\" " \o Ch(s, j))
        ELSE NoMatch

\* the rewrites in the order the catch block applies them
RepairRules ==
    <<"comment", "quoteKey", "braceKey", "bracketKey", "braceBrace", "bracketBracket",
      "quoteQuote", "quoteValue", "valueQuote", "digitDigit", "closerQuote",
      "trailingComma", "innerQuote", "quoteAfterText", "quoteBeforeText">>

\* the match of a rule that starts at index i, if any
matchRule(rule, s, i) ==
    CASE rule = "comment" ->
            IF startsWith(s, i, "//") THEN Matched(lineEnd(s, i + 2) - i, "") ELSE NoMatch
      [] rule = "quoteKey"       -> matchBeforeKey(s, i, "\"")
      [] rule = "braceKey"       -> matchBeforeKey(s, i, "}")
      [] rule = "bracketKey"     -> matchBeforeKey(s, i, "]")
      [] rule = "braceBrace"     -> matchInsertComma(s, i, {"}"}, 0, {"{"})
      [] rule = "bracketBracket" -> matchInsertComma(s, i, {"]"}, 0, {"["})
      [] rule = "quoteQuote"     -> matchInsertComma(s, i, {"\""}, 1, {"\""})
      [] rule = "quoteValue"     ->
            matchInsertComma(s, i, {"\""}, 1, DigitSet \cup {"t", "f", "n", "[", "{"})
      [] rule = "valueQuote"     -> matchValueQuote(s, i)
      [] rule = "digitDigit"     -> matchDigitDigit(s, i)
      [] rule = "closerQuote"    -> matchInsertComma(s, i, {"]", "}"}, 0, {"\""})
      [] rule = "trailingComma"  -> matchTrailingComma(s, i)
      [] rule = "innerQuote"     -> matchInnerQuote(s, i)
      [] rule = "quoteAfterText" -> matchQuoteAfterText(s, i)
      [] OTHER                   -> matchQuoteBeforeText(s, i)

\* s.replace(/rule/g, replacement): leftmost matches, not overlapping
RECURSIVE replaceAll(_, _, _)
replaceAll(rule, s, i) ==
    LET hits == {j \in i..Len(s) : matchRule(rule, s, j).len > 0}
        j    == MinOf(hits)
        m    == matchRule(rule, s, j)
    IN  IF hits = {} THEN SubSeq(s, i, Len(s))
        ELSE SubSeq(s, i, j - 1) \o m.rep \o replaceAll(rule, s, j + m.len)

RECURSIVE applyRules(_, _)
applyRules(s, n) ==
    IF n > Len(RepairRules) THEN s
    ELSE applyRules(replaceAll(RepairRules[n], s, 1), n + 1)

\* fixedText after the rewrites
repairText(cleanText) == applyRules(cleanText, 1)

----------------------------------------------------------------------------
(* parseJsonResponse *)

FormattingMessage ==
    "We encountered a formatting issue with the AI's response. Please try generating again, or use a shorter input text to reduce complexity."

\* return sanitizeData(rawData), when it returns
returnDocument(doc) == [kind |-> "document", doc |-> doc]

\* an inner catch that starts the fallback again after a failed re-parse
reparseRetries(threw) == IF threw THEN "RETRY_WITH_REPAIR" ELSE "RENORMALIZE"

\* where control goes after JSON.parse(fixedText): on to sanitizeData, or into
\* catch (e2), which returns
afterReparse(threw) == IF threw THEN "FAILURE" ELSE "RENORMALIZE"

\* a catch (e2) block that rethrows: the exception leaves parseJsonResponse
catchRepairRethrow == [kind |-> "exception"]

\* catch (e2) { ... return { error: ... } }
catchRepairFailure == [kind |-> "error", error |-> FormattingMessage]

----------------------------------------------------------------------------
(* Candidate documents handed to sanitizeData *)

MaxSections == 2

V1 == Obj([type |-> Str("image"), url |-> Str("u")])
V2 == Obj([type |-> Str("table")])

RECURSIVE Repeat(_, _)
Repeat(c, n) == IF n = 0 THEN "" ELSE c \o Repeat(c, n - 1)

\* two contents that differ only after their first ContentProbeLen characters
LongA == Repeat("a", ContentProbeLen) \o "b"
LongB == Repeat("a", ContentProbeLen) \o "c"

SectionPool ==
    { Obj([id |-> Str("s1"), title |-> Str("Results"), content |-> Str("p1"),
           column |-> Str("2"), visuals |-> Arr(<<V1>>)]),
      Obj([title |-> Str(" results "), content |-> Str("p2"),
           column |-> Str("Column 2"), visual |-> V2]),
      Obj([id |-> Str("s1"), title |-> Str("Methods"), content |-> Str("m"),
           column |-> Str("left"), visuals |-> Arr(<<V2>>), visual |-> V1]),
      Obj([id |-> Str("s4"), title |-> Str("RESULTS"), content |-> Str(LongA),
           column |-> Num(1), visuals |-> Arr(<<>>)]),
      Obj([id |-> Str("s5"), title |-> Str("Results"), content |-> Str(LongB),
           column |-> Str("3"), visuals |-> Arr(<<V1, V2>>)]),
      Obj([title |-> Str("Intro"), column |-> Str("column1")]),
      Obj([id |-> Num(0), title |-> Str("intro"), content |-> Str("p1 and more"),
           visual |-> Null]),
      Obj([content |-> Str("untitled"), visuals |-> Str("v")]),
      Obj([id |-> Str("s9"), title |-> Num(5), content |-> Str("n")]),
      Obj([id |-> Str("s10"), title |-> Str("Discussion"), content |-> Num(3),
           visual |-> V1, visuals |-> Str("v")]),
      Obj([id |-> Str("s11"), title |-> Str("Abstract"), content |-> Str("a"),
           column |-> Str(" COLUMN  2 ")]),
      Obj([id |-> Str("s12"), title |-> Str("Abstract and aims"), content |-> Str("b"),
           column |-> Str("3"), visuals |-> Arr(<<V1>>), visual |-> V2]),
      Null,
      Str("section") }

RECURSIVE SeqsUpTo(_, _)
SeqsUpTo(S, n) ==
    IF n = 0 THEN {<<>>}
    ELSE LET shorter == SeqsUpTo(S, n - 1)
         IN  shorter \cup {Append(q, x) : q \in shorter, x \in S}

SectionLists == SeqsUpTo(SectionPool, MaxSections)

\* candidates that vary the top level
TopPool ==
    { Null, Undef, Num(7), Str("x"), Bool(TRUE), Arr(<<Num(1)>>),
      Obj(NoFields),
      Obj([title |-> Str("T"), authors |-> Arr(<<Str("A")>>), university |-> Str("U")]),
      Obj([title |-> Null]),
      Obj([authors |-> Str("A. Author")]),
      Obj([theme |-> Null]),
      Obj([theme |-> Obj([headerColor |-> Str("#000000")])]),
      Obj([theme |-> Obj([headerColor |-> Num(0)])]),
      Obj([theme |-> Str("dark")]),
      Obj([contactInfo |-> Obj([email |-> Str("e@x.org")])]),
      Obj([contactInfo |-> Num(0)]),
      Obj([warnings |-> Str("w")]),
      Obj([warnings |-> Arr(<<Str("w")>>)]),
      Obj([sections |-> Str("none")]),
      Obj([sections |-> Null]) }

Candidates ==
    TopPool \cup {Obj([title |-> Str("Foo"), sections |-> Arr(q)]) : q \in SectionLists}

\* the random parts Math.random() can yield; within one call they are taken
\* to be distinct (36^9 values)
RandomParts == {"k3j9x0a1b", "q0w8e7r6t", "z5y4x3w2v", "m1n2b3v4c"}

GenChoices(n) ==
    {g \in [1..n -> RandomParts] : \A i, j \in 1..n : i # j => g[i] # g[j]}

SectionsOf(data) ==
    IF data.t = "object" /\ IsArray(Get(data, "sections")) THEN Get(data, "sections").a
    ELSE <<>>

NoResult == [threw |-> FALSE, doc |-> Undef]

\* no history is being followed
HIdle ==
    /\ hPast = <<>> /\ hPresent = 0 /\ hFuture = <<>>
    /\ hOp = [op |-> "none", arg |-> 0]
    /\ hPrev = [past |-> <<>>, present |-> 0, future |-> <<>>]
    /\ hMark = [live |-> FALSE, value |-> 0, undone |-> FALSE]

\* no App is being followed
AIdle ==
    /\ aVersions = <<>> /\ aIndex = 0 /\ aChat = FALSE /\ aLoading = FALSE
    /\ aEditing = FALSE /\ aPending = {} /\ aDocs = 0 /\ aReset = FALSE
    /\ aLast = "none"

\* no PosterDisplay is being followed
DIdle ==
    /\ dSections = <<>> /\ dDragged = "" /\ dTarget = [id |-> "", position |-> ""]
    /\ dPrev = <<>> /\ dDrop = [handler |-> "none", grabbed |-> 0]

UiIdle == HIdle /\ AIdle /\ DIdle

\* no extractBalancedJSON run is being followed
XIdle ==
    /\ xPc = "idle" /\ xGen = "later" /\ xStr = "" /\ xI = 0
    /\ xScan = [complete |-> FALSE] /\ xOut = ""

PIdle ==
    /\ pPc = "idle" /\ pOrigin = [kind |-> "none", doc |-> "", at |-> 0]
    /\ pText = "" /\ pClean = "" /\ pFixed = "" /\ pRaw = Undef
    /\ pStrict = "none" /\ pRepairRan = FALSE /\ pParses = 0
    /\ pResult = [kind |-> "none"]

SInit ==
    /\ sPc = "start"
    /\ sData \in Candidates
    /\ sOut = NoResult
    /\ sOut2 = NoResult
    /\ PIdle
    /\ XIdle
    /\ UiIdle

\* sanitizeData(rawData)
Sanitize ==
    /\ sPc = "start"
    /\ \E gen \in GenChoices(Len(SectionsOf(sData))) :
          sOut' = sanitizeData(sData, gen)
    /\ sPc' = "once"
    /\ UNCHANGED <<sData, sOut2>>
    /\ UNCHANGED pVars
    /\ UNCHANGED xVars
    /\ UNCHANGED uiVars

\* sanitizeData applied to the document sanitizeData returned
SanitizeAgain ==
    /\ sPc = "once"
    /\ ~sOut.threw
    /\ \E gen \in GenChoices(Len(SectionsOf(sOut.doc))) :
          sOut2' = sanitizeData(sOut.doc, gen)
    /\ sPc' = "twice"
    /\ UNCHANGED <<sData, sOut>>
    /\ UNCHANGED pVars
    /\ UNCHANGED xVars
    /\ UNCHANGED uiVars

SNext == Sanitize \/ SanitizeAgain

SpecSanitize == SInit /\ [][SNext]_vars

\* sections handed to the earlier generation
EarlierPool ==
    { Obj([title |-> Str("Results"), content |-> Str("p1"), column |-> Str("2")]),
      Obj([title |-> Str(" results "), content |-> Str("P1 "), column |-> Str("1"),
           visual |-> V1]),
      Obj([title |-> Str("Results"), content |-> Str("p2"), visuals |-> Arr(<<V2>>)]),
      Obj([title |-> Str("a|b"), content |-> Str("c")]),
      Obj([title |-> Str("a"), content |-> Str("b|c")]),
      Obj([content |-> Str("x")]),
      Obj([title |-> Str("undefined"), content |-> Str("x")]),
      Obj([title |-> Str("Methods")]),
      Obj([title |-> Str("Intro"), content |-> Num(3)]),
      Obj([title |-> Num(5), content |-> Str("n"), column |-> Str("1")]),
      Null }

EarlierCandidates ==
    {Null, Str("x"), Obj(NoFields), Obj([sections |-> Str("none")])}
    \cup {Obj([title |-> Str("Foo"), sections |-> Arr(q)]) :
              q \in SeqsUpTo(EarlierPool, MaxSections)}

EInit ==
    /\ sPc = "start"
    /\ sData \in EarlierCandidates
    /\ sOut = NoResult
    /\ sOut2 = NoResult
    /\ PIdle
    /\ XIdle
    /\ UiIdle

\* sanitizeData(rawData) of the earlier generation
SanitizeEarlier ==
    /\ sPc = "start"
    /\ sOut' = sanitizeDataEarlier(sData)
    /\ sPc' = "once"
    /\ UNCHANGED <<sData, sOut2>>
    /\ UNCHANGED pVars
    /\ UNCHANGED xVars
    /\ UNCHANGED uiVars

\* sanitizeData of the earlier generation applied to the document it returned
SanitizeEarlierAgain ==
    /\ sPc = "once"
    /\ ~sOut.threw
    /\ sOut2' = sanitizeDataEarlier(sOut.doc)
    /\ sPc' = "twice"
    /\ UNCHANGED <<sData, sOut>>
    /\ UNCHANGED pVars
    /\ UNCHANGED xVars
    /\ UNCHANGED uiVars

ENext == SanitizeEarlier \/ SanitizeEarlierAgain

SpecSanitizeEarlier == EInit /\ [][ENext]_vars


----------------------------------------------------------------------------
(* Model replies handed to parseJsonResponse *)

\* reply texts are written with ' for the double quote
RECURSIVE Q(_)
Q(s) ==
    IF Len(s) <= 1 THEN (IF s = "'" THEN "\"" ELSE s)
    ELSE Q(SubSeq(s, 1, Len(s) \div 2)) \o Q(SubSeq(s, Len(s) \div 2 + 1, Len(s)))

\* well-formed JSON object replies
ValidReplies ==
    { Q("{'title': 'Foo', 'sections': [{'title':'A','content':'x'}, {'title':'B','content':'y'}]}"),
      Q("{'a':[1,20,true,null],'t':'q\\'r{\\u00e9','n':{'k':-3.5e1,'e':[]}}"),
      Q("{'title':'T','authors':['A' ,'B'],'theme':{'headerColor':'#000'},'warnings':[]}"),
      Q("{'sections':[{'title':'Results','content':'p1','column':'Column 2'},{'title':'results','content':'p2','visual':{'type':'image'}}]}"),
      Q("{'sections':[null]}"),
      Q("{'sections':[{'title':'Intro'},{'title':'intro','content':'c'}]}") }

\* the well-formed replies whose sections all carry a title and a content
PosterReplies ==
    {d \in ValidReplies :
        LET secs == SectionsOf(jsonParse(d).v)
        IN  /\ Len(secs) > 0
            /\ \A i \in 1..Len(secs) :
                  /\ IsObject(secs[i])
                  /\ IsString(Get(secs[i], "title"))
                  /\ IsString(Get(secs[i], "content"))}

\* replies that are used as they are
OtherReplies ==
    { "", "I cannot help with that.", "123", "null", Q("'text'"), Q("[1 2 3]"),
      Q("{'title': 'The 'Tour' vlog', 'authors': ['A' 'B']}"),
      Q("{'title':'T' 'column':'1', 'rows':[[1 2] [3]] // note\n}"),
      Q("{'a':1}} trailing }"),
      Q("{'title':'T','sections':[{'title':'A'} ,]}") }

Prose == "Here is the poster: "

\* the reply made from a well-formed doc
MakeReply(kind, doc, at) ==
    CASE kind = "whole"     -> doc
      [] kind = "truncated" -> SubSeq(doc, 1, at)
      [] kind = "deleted"   -> SubSeq(doc, 1, at - 1) \o SubSeq(doc, at + 1, Len(doc))
      [] kind = "fenced"    -> Fence \o "json\n" \o doc \o "\n" \o Fence
      [] OTHER              -> Prose \o doc \o " Enjoy!"

Origins ==
    {[kind |-> k, doc |-> d, at |-> 0] :
        k \in {"whole", "fenced", "prose"}, d \in ValidReplies}
    \cup {[kind |-> "whole", doc |-> d, at |-> 0] : d \in OtherReplies}
    \cup UNION {{[kind |-> k, doc |-> d, at |-> n] :
                    k \in {"truncated", "deleted"}, n \in 1..(Len(d) - 1)} :
                d \in ValidReplies}

SIdle ==
    /\ sPc = "idle" /\ sData = Undef /\ sOut = NoResult /\ sOut2 = NoResult

PInit ==
    /\ pPc = "START"
    /\ pOrigin \in Origins
    /\ pText = MakeReply(pOrigin.kind, pOrigin.doc, pOrigin.at)
    /\ pClean = ""
    /\ pFixed = ""
    /\ pRaw = Undef
    /\ pStrict = "none"
    /\ pRepairRan = FALSE
    /\ pParses = 0
    /\ pResult = [kind |-> "none"]
    /\ SIdle
    /\ XIdle
    /\ UiIdle

\* START: strip the fences and extract the balanced (or repaired) object text
ExtractStep ==
    /\ pPc = "START"
    /\ pClean' = extractBalancedJSON(stripFences(pText))
    /\ pPc' = "STRICT_PARSE"
    /\ UNCHANGED <<pOrigin, pText, pFixed, pRaw, pStrict, pRepairRan, pParses, pResult>>
    /\ UNCHANGED sVars
    /\ UNCHANGED xVars
    /\ UNCHANGED uiVars

\* try { const rawData = JSON.parse(cleanText)
StrictParseStep ==
    /\ pPc = "STRICT_PARSE"
    /\ \E parsed \in {jsonParse(pClean)} :
          /\ pRaw' = parsed.v
          /\ pStrict' = IF parsed.threw THEN "threw" ELSE "ok"
          /\ pPc' = IF parsed.threw THEN "RETRY_WITH_REPAIR" ELSE "NORMALIZE"
    /\ pParses' = pParses + 1
    /\ UNCHANGED <<pOrigin, pText, pClean, pFixed, pRepairRan, pResult>>
    /\ UNCHANGED sVars
    /\ UNCHANGED xVars
    /\ UNCHANGED uiVars

\* return sanitizeData(rawData) } catch (e) {
NormalizeStep ==
    /\ pPc = "NORMALIZE"
    /\ \E gen \in GenChoices(Len(SectionsOf(pRaw))) :
          \E out \in {sanitizeData(pRaw, gen)} :
              /\ pPc' = IF out.threw THEN "RETRY_WITH_REPAIR" ELSE "SUCCESS"
              /\ pResult' = IF out.threw THEN pResult ELSE returnDocument(out.doc)
    /\ UNCHANGED <<pOrigin, pText, pClean, pFixed, pRaw, pStrict, pRepairRan, pParses>>
    /\ UNCHANGED sVars
    /\ UNCHANGED xVars
    /\ UNCHANGED uiVars

\* the catch block: fixedText = cleanText rewritten by every rule in turn
RepairStep ==
    /\ pPc = "RETRY_WITH_REPAIR"
    /\ pFixed' = repairText(pClean)
    /\ pRepairRan' = TRUE
    /\ pPc' = "REPARSE"
    /\ UNCHANGED <<pOrigin, pText, pClean, pRaw, pStrict, pParses, pResult>>
    /\ UNCHANGED sVars
    /\ UNCHANGED xVars
    /\ UNCHANGED uiVars

\* const rawData = JSON.parse(fixedText), inside the inner try
ReparseStep ==
    /\ pPc = "REPARSE"
    /\ \E parsed \in {jsonParse(pFixed)} :
          /\ pRaw' = parsed.v
          /\ pPc' = afterReparse(parsed.threw)
          /\ pResult' = IF parsed.threw THEN catchRepairFailure ELSE pResult
    /\ pParses' = pParses + 1
    /\ UNCHANGED <<pOrigin, pText, pClean, pFixed, pStrict, pRepairRan>>
    /\ UNCHANGED sVars
    /\ UNCHANGED xVars
    /\ UNCHANGED uiVars

\* return sanitizeData(rawData), inside the inner try
RenormalizeStep ==
    /\ pPc = "RENORMALIZE"
    /\ \E gen \in GenChoices(Len(SectionsOf(pRaw))) :
          \E out \in {sanitizeData(pRaw, gen)} :
              /\ pPc' = IF out.threw THEN "FAILURE" ELSE "SUCCESS"
              /\ pResult' = IF out.threw THEN catchRepairFailure
                            ELSE returnDocument(out.doc)
    /\ UNCHANGED <<pOrigin, pText, pClean, pFixed, pRaw, pStrict, pRepairRan, pParses>>
    /\ UNCHANGED sVars
    /\ UNCHANGED xVars
    /\ UNCHANGED uiVars

PNext ==
    \/ ExtractStep
    \/ StrictParseStep
    \/ NormalizeStep
    \/ RepairStep
    \/ ReparseStep
    \/ RenormalizeStep

SpecParse == PInit /\ [][PNext]_vars


----------------------------------------------------------------------------
(* extractBalancedJSON followed one loop iteration at a time, both generations *)

\* one iteration of the earlier generation's loop on character c: the counters
\* openBraces and openBrackets stand in for the stack, and the test for the
\* complete object is made only for a character read outside a string
scanIterationEarlier(jsonStr, i, sc) ==
    LET c == Ch(jsonStr, i + 1)
    IN  IF sc.inString
        THEN IF sc.escape THEN [sc EXCEPT !.escape = FALSE, !.at = i]
             ELSE IF c = "\\" THEN [sc EXCEPT !.escape = TRUE, !.at = i]
             ELSE IF c = "\"" THEN [sc EXCEPT !.inString = FALSE, !.at = i]
             ELSE [sc EXCEPT !.at = i]
        ELSE LET st == IF c = "\"" THEN [sc EXCEPT !.inString = TRUE]
                       ELSE IF c = "{" THEN [sc EXCEPT !.openBraces = @ + 1]
                       ELSE IF c = "}" THEN [sc EXCEPT !.openBraces = @ - 1]
                       ELSE IF c = "[" THEN [sc EXCEPT !.openBrackets = @ + 1]
                       ELSE IF c = "]" THEN [sc EXCEPT !.openBrackets = @ - 1]
                       ELSE sc
             IN  [st EXCEPT !.at = i,
                            !.complete = st.openBraces = 0 /\ st.openBrackets = 0 /\ i > 0]

\* let openBraces = 0, openBrackets = 0, inString = false, escape = false
scanStartEarlier ==
    [complete |-> FALSE, at |-> 0, openBraces |-> 0, openBrackets |-> 0,
     inString |-> FALSE, escape |-> FALSE]

\* the suffix the earlier generation's auto-repair appends: the quote, then
\* every bracket, then every brace
repairSuffixEarlier(inString, openBraces, openBrackets) ==
    (IF inString THEN "\"" ELSE "")
    \o Repeat("]", IF openBrackets > 0 THEN openBrackets ELSE 0)
    \o Repeat("}", IF openBraces > 0 THEN openBraces ELSE 0)

\* texts handed to the extractor
ScanTexts ==
    {Prose \o d \o " Enjoy!" : d \in ValidReplies}
    \cup { "no object here", "{", "{}",
           Q("{'a':'x{y}[z]','b':[1,{'c':']'}]} tail }"),
           Q("{'s':'he said \\'hi\\' {','t':'back\\\\'} rest"),
           Q("{'a':[{'b':'c\\'"),
           Q("x {'a':[1}]} y"),
           Q("{'a':[[1],{'b':'}") }

\* str.substring(start)
JsonStr == SubSeq(xStr, indexOf(xStr, "{") + 1, Len(xStr))

XInit ==
    /\ xPc = "begin"
    /\ xGen \in {"later", "earlier"}
    /\ xStr \in ScanTexts
    /\ xI = 0
    /\ xScan = IF xGen = "later" THEN scanStart ELSE scanStartEarlier
    /\ xOut = ""
    /\ SIdle
    /\ PIdle
    /\ UiIdle

\* const start = str.indexOf('{'); if (start === -1) return str
ScanBegin ==
    /\ xPc = "begin"
    /\ IF indexOf(xStr, "{") = -1
       THEN xOut' = xStr /\ xPc' = "done"
       ELSE xOut' = xOut /\ xPc' = "scan"
    /\ UNCHANGED <<xGen, xStr, xI, xScan>>
    /\ UNCHANGED sVars
    /\ UNCHANGED pVars
    /\ UNCHANGED uiVars

\* one iteration of the later generation's for loop, with its return
ScanStep ==
    /\ xPc = "scan" /\ xGen = "later" /\ xI < Len(JsonStr)
    /\ \E sc \in {scanIteration(JsonStr, xI, xScan)} :
          /\ xScan' = sc
          /\ IF sc.complete
             THEN xOut' = completedObject(JsonStr, xI) /\ xPc' = "done" /\ xI' = xI
             ELSE xOut' = xOut /\ xPc' = "scan" /\ xI' = xI + 1
    /\ UNCHANGED <<xGen, xStr>>
    /\ UNCHANGED sVars
    /\ UNCHANGED pVars
    /\ UNCHANGED uiVars

\* one iteration of the earlier generation's for loop, with its return
ScanStepEarlier ==
    /\ xPc = "scan" /\ xGen = "earlier" /\ xI < Len(JsonStr)
    /\ \E sc \in {scanIterationEarlier(JsonStr, xI, xScan)} :
          /\ xScan' = sc
          /\ IF sc.complete
             THEN xOut' = completedObject(JsonStr, xI) /\ xPc' = "done" /\ xI' = xI
             ELSE xOut' = xOut /\ xPc' = "scan" /\ xI' = xI + 1
    /\ UNCHANGED <<xGen, xStr>>
    /\ UNCHANGED sVars
    /\ UNCHANGED pVars
    /\ UNCHANGED uiVars

\* the loop ran to the end of the text: the later generation's auto-repair
ScanRepair ==
    /\ xPc = "scan" /\ xGen = "later" /\ xI >= Len(JsonStr)
    /\ xOut' = JsonStr \o repairSuffix(xScan.inString, xScan.stack)
    /\ xPc' = "done"
    /\ UNCHANGED <<xGen, xStr, xI, xScan>>
    /\ UNCHANGED sVars
    /\ UNCHANGED pVars
    /\ UNCHANGED uiVars

\* the loop ran to the end of the text: the earlier generation's auto-repair
ScanRepairEarlier ==
    /\ xPc = "scan" /\ xGen = "earlier" /\ xI >= Len(JsonStr)
    /\ xOut' = JsonStr \o repairSuffixEarlier(xScan.inString, xScan.openBraces,
                                              xScan.openBrackets)
    /\ xPc' = "done"
    /\ UNCHANGED <<xGen, xStr, xI, xScan>>
    /\ UNCHANGED sVars
    /\ UNCHANGED pVars
    /\ UNCHANGED uiVars

XNext ==
    \/ ScanBegin
    \/ ScanStep
    \/ ScanStepEarlier
    \/ ScanRepair
    \/ ScanRepairEarlier

SpecScan == XInit /\ [][XNext]_vars

----------------------------------------------------------------------------
(* useHistory *)

\* the history state the hook holds
History == [past |-> hPast, present |-> hPresent, future |-> hFuture]

canUndo == Len(hPast) > 0
canRedo == Len(hFuture) > 0

\* undo that does not put the present in front of future
undoDropPresent(curr) ==
    IF Len(curr.past) = 0 THEN curr
    ELSE [past    |-> SubSeq(curr.past, 1, Len(curr.past) - 1),
          present |-> curr.past[Len(curr.past)],
          future  |-> curr.future]

\* undo: setHistory((curr) => ...)
undo(curr) ==
    IF Len(curr.past) = 0 THEN curr
    ELSE [past    |-> SubSeq(curr.past, 1, Len(curr.past) - 1),
          present |-> curr.past[Len(curr.past)],
          future  |-> <<curr.present>> \o curr.future]

\* redo that takes the last element of future
redoFromEnd(curr) ==
    IF Len(curr.future) = 0 THEN curr
    ELSE [past    |-> Append(curr.past, curr.present),
          present |-> curr.future[Len(curr.future)],
          future  |-> SubSeq(curr.future, 1, Len(curr.future) - 1)]

\* redo: setHistory((curr) => ...)
redo(curr) ==
    IF Len(curr.future) = 0 THEN curr
    ELSE [past    |-> Append(curr.past, curr.present),
          present |-> curr.future[1],
          future  |-> SubSeq(curr.future, 2, Len(curr.future))]

\* set without the test curr.present === newPresent
setAlways(curr, newPresent) ==
    [past |-> Append(curr.past, curr.present), present |-> newPresent, future |-> <<>>]

\* set: updates the present and pushes the previous present to past
set(curr, newPresent) ==
    IF curr.present = newPresent THEN curr
    ELSE [past |-> Append(curr.past, curr.present), present |-> newPresent, future |-> <<>>]

\* update that empties future
updateDropFuture(curr, newPresent) ==
    [past |-> curr.past, present |-> newPresent, future |-> <<>>]

\* update: ({...curr, present: newPresent})
update(curr, newPresent) == [curr EXCEPT !.present = newPresent]

\* snapshot that keeps future
snapshotKeepFuture(curr) ==
    [past |-> Append(curr.past, curr.present), present |-> curr.present,
     future |-> curr.future]

\* snapshot: pushes the present to past without changing it
snapshot(curr) ==
    [past |-> Append(curr.past, curr.present), present |-> curr.present, future |-> <<>>]

\* clear(state)
clear(state) == [past |-> <<>>, present |-> state, future |-> <<>>]

\* the hook's state after operation op with argument arg
applyOp(curr, op, arg) ==
    CASE op = "undo"     -> undo(curr)
      [] op = "redo"     -> redo(curr)
      [] op = "set"      -> set(curr, arg)
      [] op = "update"   -> update(curr, arg)
      [] op = "snapshot" -> snapshot(curr)
      [] OTHER           -> clear(arg)

\* no snapshot is being followed
NoMark == [live |-> FALSE, value |-> 0, undone |-> FALSE]

\* one call on the hook: the state is replaced, the call and the state before it
\* are recorded
Call(op, arg) ==
    \E next \in {applyOp(History, op, arg)} :
        /\ hPast' = next.past
        /\ hPresent' = next.present
        /\ hFuture' = next.future
        /\ hOp' = [op |-> op, arg |-> arg]
        /\ hPrev' = History
        /\ hMark' = CASE op = "snapshot" ->
                            [live |-> TRUE, value |-> hPresent, undone |-> FALSE]
                      [] op = "update" /\ hMark.live -> hMark
                      [] op = "undo" /\ hMark.live ->
                            [live |-> FALSE, value |-> hMark.value, undone |-> TRUE]
                      [] OTHER -> NoMark

\* how long past and future together may grow
MaxHistory == 3

\* the snapshots the history is exercised with
HistoryValues == {0, 1, 2}

HInit ==
    /\ hPast = <<>>
    /\ hPresent \in HistoryValues
    /\ hFuture = <<>>
    /\ hOp = [op |-> "none", arg |-> 0]
    /\ hPrev = [past |-> <<>>, present |-> hPresent, future |-> <<>>]
    /\ hMark = [live |-> FALSE, value |-> 0, undone |-> FALSE]
    /\ SIdle /\ PIdle /\ XIdle /\ AIdle /\ DIdle

OthersIdle == UNCHANGED <<sVars, pVars, xVars, aVars, dVars>>

HUndo == Call("undo", 0) /\ OthersIdle
HRedo == Call("redo", 0) /\ OthersIdle

HSet ==
    /\ Len(hPast) + Len(hFuture) < MaxHistory
    /\ \E v \in HistoryValues : Call("set", v)
    /\ OthersIdle

HUpdate ==
    /\ \E v \in HistoryValues : Call("update", v)
    /\ OthersIdle

HSnapshot ==
    /\ Len(hPast) + Len(hFuture) < MaxHistory
    /\ Call("snapshot", 0)
    /\ OthersIdle

HClear ==
    /\ \E v \in HistoryValues : Call("clear", v)
    /\ OthersIdle

HNext == HUndo \/ HRedo \/ HSet \/ HUpdate \/ HSnapshot \/ HClear

SpecHistory == HInit /\ [][HNext]_vars

----------------------------------------------------------------------------
(* App: generation, revision, versions, Start Over *)

\* useHistory<PosterData | null>(null): the null document
NullDoc == 0

\* the value of an array slot that was never written
UndefinedDoc == -1

\* how many documents (generated or edited) a run may make
MaxDocs == 3

\* how many requests may be in flight at once
MaxPending == 2

\* posterData is truthy
IsDoc(d) == d > 0

\* posterData
posterData == hPresent

\* posterData && chatSession: the revision panel is shown
RevisionMode == IsDoc(posterData) /\ aChat

RECURSIVE Holes(_)
Holes(n) == IF n <= 0 THEN <<>> ELSE Append(Holes(n - 1), UndefinedDoc)

\* const updated = [...list]; updated[i] = doc  (i is 0-based; a write past the
\* end leaves the slots in between unwritten)
WriteAt(list, i, doc) ==
    IF i < Len(list) THEN [list EXCEPT ![i + 1] = doc]
    ELSE list \o Holes(i - Len(list)) \o <<doc>>

\* the document a request that succeeds now returns
NewDoc == aDocs + 1

HistoryIdle == UNCHANGED hVars

AppOthersIdle == UNCHANGED <<sVars, pVars, xVars, dVars>>

AInit ==
    /\ hPast = <<>> /\ hPresent = NullDoc /\ hFuture = <<>>
    /\ hOp = [op |-> "none", arg |-> 0]
    /\ hPrev = [past |-> <<>>, present |-> NullDoc, future |-> <<>>]
    /\ hMark = NoMark
    /\ AIdle
    /\ SIdle /\ PIdle /\ XIdle /\ DIdle

\* handleInitialSubmit up to the await
Generate ==
    /\ ~RevisionMode /\ ~aLoading
    /\ aDocs < MaxDocs /\ Cardinality(aPending) < MaxPending
    /\ Call("clear", NullDoc)
    /\ aVersions' = <<>> /\ aIndex' = 0 /\ aChat' = FALSE
    /\ aLoading' = TRUE /\ aEditing' = FALSE
    /\ aPending' = aPending \cup {[kind |-> "initial", versions |-> <<>>, index |-> 0]}
    /\ aReset' = FALSE
    /\ aLast' = "Generate"
    /\ UNCHANGED aDocs
    /\ AppOthersIdle

\* handleInitialSubmit after the await, result without error
GenerateDone ==
    /\ \E r \in aPending :
          /\ r.kind = "initial"
          /\ aPending' = aPending \ {r}
    /\ aVersions' = <<NewDoc>> /\ aIndex' = 0
    /\ Call("set", NewDoc)
    /\ aChat' = TRUE /\ aLoading' = FALSE
    /\ aDocs' = NewDoc
    /\ aLast' = "GenerateDone"
    /\ UNCHANGED <<aEditing, aReset>>
    /\ AppOthersIdle

\* handleRevisionSubmit up to the await: the closure holds the versions and the
\* currentVersionIndex of the render in which the button was pressed
Revise ==
    /\ RevisionMode /\ ~aLoading
    /\ aDocs < MaxDocs /\ Cardinality(aPending) < MaxPending
    /\ aLoading' = TRUE
    /\ aPending' = aPending \cup
                      {[kind |-> "revision", versions |-> aVersions, index |-> aIndex]}
    /\ aLast' = "Revise"
    /\ UNCHANGED <<aVersions, aIndex, aChat, aEditing, aDocs, aReset>>
    /\ HistoryIdle
    /\ AppOthersIdle

\* handleRevisionSubmit after the await, result without error
ReviseDone ==
    /\ \E r \in aPending :
          /\ r.kind = "revision"
          /\ aPending' = aPending \ {r}
          /\ aVersions' = WriteAt(r.versions, r.index, NewDoc)
    /\ Call("set", NewDoc)
    /\ aLoading' = FALSE
    /\ aDocs' = NewDoc
    /\ aLast' = "ReviseDone"
    /\ UNCHANGED <<aIndex, aChat, aEditing, aReset>>
    /\ AppOthersIdle

\* handleSwitchVersion(index)
SwitchVersion ==
    /\ RevisionMode
    /\ \E index \in 0..(Len(aVersions) - 1) :
          /\ index # aIndex
          /\ \E updated \in {WriteAt(aVersions, aIndex, posterData)} :
                /\ aVersions' = updated
                /\ aIndex' = index
                /\ Call("clear", updated[index + 1])
    /\ aLast' = "SwitchVersion"
    /\ UNCHANGED <<aChat, aLoading, aEditing, aPending, aDocs, aReset>>
    /\ AppOthersIdle

\* handleCreateVariation up to the await
CreateVariation ==
    /\ RevisionMode /\ ~aLoading
    /\ aDocs < MaxDocs /\ Cardinality(aPending) < MaxPending
    /\ \E updated \in {WriteAt(aVersions, aIndex, posterData)} :
          /\ aVersions' = updated
          /\ aPending' = aPending \cup
                            {[kind |-> "variation", versions |-> updated, index |-> aIndex]}
    /\ aLoading' = TRUE
    /\ aLast' = "CreateVariation"
    /\ UNCHANGED <<aIndex, aChat, aEditing, aDocs, aReset>>
    /\ HistoryIdle
    /\ AppOthersIdle

\* handleCreateVariation after the await, result without error
VariationDone ==
    /\ \E r \in aPending :
          /\ r.kind = "variation"
          /\ aPending' = aPending \ {r}
          /\ aVersions' = Append(r.versions, NewDoc)
          /\ aIndex' = Len(r.versions)
    /\ Call("clear", NewDoc)
    /\ aLoading' = FALSE
    /\ aDocs' = NewDoc
    /\ aLast' = "VariationDone"
    /\ UNCHANGED <<aChat, aEditing, aReset>>
    /\ AppOthersIdle

\* a request ends with an error: setError, then the finally block
RequestFailed ==
    /\ \E r \in aPending : aPending' = aPending \ {r}
    /\ aLoading' = FALSE
    /\ aLast' = "RequestFailed"
    /\ UNCHANGED <<aVersions, aIndex, aChat, aEditing, aDocs, aReset>>
    /\ HistoryIdle
    /\ AppOthersIdle

\* handleStartOver
StartOver ==
    /\ RevisionMode
    /\ Call("clear", NullDoc)
    /\ aVersions' = <<>> /\ aIndex' = 0
    /\ aLoading' = FALSE /\ aChat' = FALSE /\ aEditing' = FALSE
    /\ aReset' = TRUE
    /\ aLast' = "StartOver"
    /\ UNCHANGED <<aPending, aDocs>>
    /\ AppOthersIdle

\* the Undo button: onClick={history.undo} disabled={!history.canUndo}
Undo ==
    /\ RevisionMode /\ canUndo
    /\ Call("undo", 0)
    /\ aLast' = "Undo"
    /\ UNCHANGED <<aVersions, aIndex, aChat, aLoading, aEditing, aPending, aDocs, aReset>>
    /\ AppOthersIdle

\* the Redo button: onClick={history.redo} disabled={!history.canRedo}
Redo ==
    /\ RevisionMode /\ canRedo
    /\ Call("redo", 0)
    /\ aLast' = "Redo"
    /\ UNCHANGED <<aVersions, aIndex, aChat, aLoading, aEditing, aPending, aDocs, aReset>>
    /\ AppOthersIdle

\* the manual edit toggle: setIsEditing(!isEditing)
ToggleEditing ==
    /\ RevisionMode
    /\ aEditing' = ~aEditing
    /\ aLast' = "ToggleEditing"
    /\ UNCHANGED <<aVersions, aIndex, aChat, aLoading, aPending, aDocs, aReset>>
    /\ HistoryIdle
    /\ AppOthersIdle

\* a discrete edit: history.set({...posterData, ...}) (logo, theme, add, delete,
\* reorder)
EditSet ==
    /\ IsDoc(posterData)
    /\ aDocs < MaxDocs /\ Len(hPast) < MaxHistory
    /\ Call("set", NewDoc)
    /\ aDocs' = NewDoc
    /\ aLast' = "EditSet"
    /\ UNCHANGED <<aVersions, aIndex, aChat, aLoading, aEditing, aPending, aReset>>
    /\ AppOthersIdle

\* typing in the poster: history.update({...posterData, ...})
EditUpdate ==
    /\ IsDoc(posterData) /\ aEditing
    /\ aDocs < MaxDocs
    /\ Call("update", NewDoc)
    /\ aDocs' = NewDoc
    /\ aLast' = "EditUpdate"
    /\ UNCHANGED <<aVersions, aIndex, aChat, aLoading, aEditing, aPending, aReset>>
    /\ AppOthersIdle

\* onEditStart={() => history.snapshot()}
EditStart ==
    /\ IsDoc(posterData) /\ aEditing
    /\ Len(hPast) < MaxHistory
    /\ Call("snapshot", 0)
    /\ aLast' = "EditStart"
    /\ UNCHANGED <<aVersions, aIndex, aChat, aLoading, aEditing, aPending, aDocs, aReset>>
    /\ AppOthersIdle

ANext ==
    \/ Generate
    \/ GenerateDone
    \/ Revise
    \/ ReviseDone
    \/ SwitchVersion
    \/ CreateVariation
    \/ VariationDone
    \/ RequestFailed
    \/ StartOver
    \/ Undo
    \/ Redo
    \/ ToggleEditing
    \/ EditSet
    \/ EditUpdate
    \/ EditStart

SpecApp == AInit /\ [][ANext]_vars

(***************************************************************************)
(* PosterDisplay: drag-and-drop reordering of the section cards            *)
(***************************************************************************)

\* how many section cards the displayed poster has at most
MaxCards == 3

\* the ids the cards may carry: sanitizeData keeps a supplied id and never
\* compares ids, so two cards may carry the same one
DragIds == {"s1", "s2", "x"}

\* the titles tell the cards apart whatever their ids are
CardTitles == <<"A", "B", "C", "D">>

\* draggedId === null
NullId == ""

\* dropTarget === null
NullTarget == [id |-> "", position |-> ""]

\* sections.findIndex(s => s.id === id), 0-based, -1 when absent
findIndexById(list, id) ==
    IF \E i \in 1..Len(list) : list[i].id = id
    THEN (CHOOSE i \in 1..Len(list) :
             list[i].id = id /\ \A j \in 1..(i - 1) : list[j].id # id) - 1
    ELSE -1

\* list.splice(index, 1) on a copy (index is 0-based)
spliceOut(list, index) ==
    SubSeq(list, 1, index) \o SubSeq(list, index + 2, Len(list))

\* list.splice(index, 0, item) on a copy (index is 0-based)
spliceIn(list, index, item) ==
    SubSeq(list, 1, index) \o <<item>> \o SubSeq(list, index + 1, Len(list))

\* the section list handleDropSection leaves in place
dropSection(sections, draggedId, dropTarget, targetId) ==
    IF draggedId = NullId \/ dropTarget = NullTarget THEN sections
    ELSE LET draggedIndex == findIndexById(sections, draggedId)
         IN  IF draggedIndex = -1 THEN sections
             ELSE LET movedItem   == sections[draggedIndex + 1]
                      newSections == spliceOut(sections, draggedIndex)
                  IN  IF startsWith(targetId, 1, "column-")
                      THEN LET targetCol == IF includes(targetId, "1") THEN "1" ELSE "2"
                           IN  spliceIn(newSections, Len(newSections),
                                        [movedItem EXCEPT !.column = targetCol])
                      ELSE LET targetIndex == findIndexById(newSections, targetId)
                           IN  IF targetIndex = -1 THEN sections
                               ELSE spliceIn(newSections,
                                             IF dropTarget.position = "bottom"
                                             THEN targetIndex + 1 ELSE targetIndex,
                                             [movedItem EXCEPT
                                                !.column = newSections[targetIndex + 1].column])

\* the section list handleDropToColumnBackground leaves in place
dropToColumnBackground(sections, draggedId, dropTarget, columnId) ==
    IF draggedId = NullId THEN sections
    ELSE IF dropTarget # NullTarget
            /\ (startsWith(dropTarget.id, 1, "column-") \/ includes(dropTarget.id, columnId))
    THEN dropSection(sections, draggedId, dropTarget, dropTarget.id)
    ELSE LET draggedIndex == findIndexById(sections, draggedId)
         IN  IF draggedIndex = -1 THEN sections
             ELSE LET movedSection == sections[draggedIndex + 1]
                  IN  IF movedSection.column # columnId
                      THEN Append(spliceOut(sections, draggedIndex),
                                  [movedSection EXCEPT !.column = columnId])
                      ELSE sections

\* sections.filter(s => s.column === columnId)
columnSections(sections, columnId) ==
    LET inColumn(s) == s.column = columnId IN SelectSeq(sections, inColumn)

CardLists ==
    UNION {{[i \in 1..n |-> [id |-> ids[i], column |-> cols[i], title |-> CardTitles[i]]] :
              ids \in [1..n -> DragIds], cols \in [1..n -> {"1", "2"}]} : n \in 2..MaxCards}

DragOthersIdle == UNCHANGED <<sVars, pVars, xVars, hVars, aVars>>

DInit ==
    /\ dSections \in CardLists
    /\ dDragged = NullId /\ dTarget = NullTarget
    /\ dPrev = <<>> /\ dDrop = [handler |-> "none", grabbed |-> 0]
    /\ SIdle /\ PIdle /\ XIdle /\ HIdle /\ AIdle

\* handleDragStart(e, section.id) of the card at position i
DragStart ==
    \E i \in 1..Len(dSections) :
        /\ dDragged = NullId
        /\ dDragged' = dSections[i].id
        /\ dDrop' = [handler |-> "handleDragStart", grabbed |-> i]
        /\ UNCHANGED <<dSections, dTarget, dPrev>>
        /\ DragOthersIdle

\* handleDragEnd: the drag is given up, or ends on the poster background
DragEnd ==
    /\ dDragged # NullId
    /\ dDragged' = NullId /\ dTarget' = NullTarget
    /\ dDrop' = [handler |-> "handleDragEnd", grabbed |-> 0]
    /\ UNCHANGED <<dSections, dPrev>>
    /\ DragOthersIdle

\* handleDragOverSection(e, section.id) of the card at position i, with the
\* pointer above or below its middle
DragOverSection ==
    \E i \in 1..Len(dSections), position \in {"top", "bottom"} :
        /\ dDragged # NullId /\ dDragged # dSections[i].id
        /\ dTarget' = [id |-> dSections[i].id, position |-> position]
        /\ UNCHANGED <<dSections, dDragged, dPrev, dDrop>>
        /\ DragOthersIdle

\* handleDragOverColumn(e, columnId), with the pointer near the bottom or not
DragOverColumn ==
    \E columnId \in {"1", "2"}, nearBottom \in BOOLEAN :
        /\ dDragged # NullId
        /\ LET inColumn == columnSections(dSections, columnId)
           IN  dTarget' = IF inColumn = <<>>
                          THEN [id |-> "column-" \o columnId \o "-end", position |-> "bottom"]
                          ELSE IF nearBottom
                          THEN [id |-> inColumn[Len(inColumn)].id, position |-> "bottom"]
                          ELSE dTarget
        /\ UNCHANGED <<dSections, dDragged, dPrev, dDrop>>
        /\ DragOthersIdle

\* handleDropSection(e, section.id) of the card at position i
DropSection ==
    \E i \in 1..Len(dSections) :
        /\ dSections' = dropSection(dSections, dDragged, dTarget, dSections[i].id)
        /\ dDragged' = NullId /\ dTarget' = NullTarget
        /\ dPrev' = dSections
        /\ dDrop' = [handler |-> "handleDropSection",
                     grabbed |-> IF dDragged = NullId THEN 0 ELSE dDrop.grabbed]
        /\ DragOthersIdle

\* handleDropToColumnBackground(e, columnId)
DropToColumnBackground ==
    \E columnId \in {"1", "2"} :
        /\ dSections' = dropToColumnBackground(dSections, dDragged, dTarget, columnId)
        /\ dDragged' = NullId /\ dTarget' = NullTarget
        /\ dPrev' = dSections
        /\ dDrop' = [handler |-> "handleDropToColumnBackground",
                     grabbed |-> IF dDragged = NullId THEN 0 ELSE dDrop.grabbed]
        /\ DragOthersIdle

DNext ==
    \/ DragStart
    \/ DragEnd
    \/ DragOverSection
    \/ DragOverColumn
    \/ DropSection
    \/ DropToColumnBackground

SpecDrag == DInit /\ [][DNext]_vars

----------------------------------------------------------------------------
(* Properties of sanitizeData (checked under SpecSanitize) *)

Returned == sPc # "start" /\ ~sOut.threw
InSections == SectionsOf(sData)
OutSections == Get(sOut.doc, "sections").a

\* a title after trimming and lower-casing; Undef for a missing title
TitleKey(section) ==
    LET title == Get(section, "title")
    IN  IF IsString(title) THEN Str(toLowerCase(trim(title.s))) ELSE Undef

\* the input sections that carry the key of a given output section
Members(key) == {k \in 1..Len(InSections) : TitleKey(InSections[k]) = key}

\* C1: the returned document has no two sections whose titles are equal after
\* trimming and lower-casing, and it has exactly one section per distinct
\* normalized title of the input (later ones are merged, none is kept apart).
C1_NoDuplicateTitles ==
    Returned =>
        /\ \A i, j \in 1..Len(OutSections) :
              i # j => TitleKey(OutSections[i]) # TitleKey(OutSections[j])
        /\ Len(OutSections)
              = Cardinality({TitleKey(InSections[k]) : k \in 1..Len(InSections)})

C1_Witness ==
    /\ Returned
    /\ Len(InSections) = 2
    /\ Get(InSections[1], "title") # Get(InSections[2], "title")
    /\ TitleKey(InSections[1]) = TitleKey(InSections[2])
    /\ Len(OutSections) = 1

IsStringValue(v) == v.t = "string"
IsStringList(v) == v.t = "array" /\ \A i \in 1..Len(v.a) : v.a[i].t = "string"
HasStringFields(v, names) ==
    /\ v.t = "object"
    /\ \A n \in names : n \in DOMAIN v.f /\ v.f[n].t = "string"

ThemeColours ==
    {"backgroundColor", "headerColor", "titleColor", "headingColor", "textColor",
     "accentColor", "sectionBackgroundColor", "sectionBodyColor"}
ContactFields == {"email", "phone", "location", "website", "qrCodeUrl"}

WellTyped(doc) ==
    /\ doc.t = "object"
    /\ IsStringValue(Get(doc, "title"))
    /\ IsStringList(Get(doc, "authors"))
    /\ IsStringValue(Get(doc, "university"))
    /\ IsStringValue(Get(doc, "department"))
    /\ HasStringFields(Get(doc, "theme"), ThemeColours)
    /\ IsArray(Get(doc, "sections"))
    /\ HasStringFields(Get(doc, "contactInfo"), ContactFields)
    /\ IsStringList(Get(doc, "warnings"))

\* C2: whenever sanitizeData returns, every required top-level field of the
\* document is present and has its expected type.
C2_Totality == Returned => WellTyped(sOut.doc)

\* C3: sanitizeData never raises an error, whatever candidate it is given.
C3_NeverThrows == sPc # "start" => ~sOut.threw

\* C5: after normalization every section has a non-empty id and no two
\* sections of the returned document have the same id.
C5_UniqueIds ==
    Returned =>
        /\ \A i \in 1..Len(OutSections) : Truthy(Get(OutSections[i], "id"))
        /\ \A i, j \in 1..Len(OutSections) :
              i # j => Get(OutSections[i], "id") # Get(OutSections[j], "id")

\* C7: when a later section has the normalized title of a retained section and
\* a different content string, the retained content afterwards contains both
\* contents in full.
C7_ContentConserved ==
    Returned =>
        \A i \in 1..Len(OutSections) :
            \A k \in Members(TitleKey(OutSections[i])) :
                LET first  == CHOOSE m \in Members(TitleKey(OutSections[i])) :
                                 \A n \in Members(TitleKey(OutSections[i])) : m <= n
                    A      == Get(InSections[first], "content")
                    B      == Get(InSections[k], "content")
                    merged == Get(OutSections[i], "content")
                IN  (k # first /\ IsString(A) /\ IsString(B) /\ A # B)
                        => /\ IsString(merged)
                           /\ includes(merged.s, A.s)
                           /\ includes(merged.s, B.s)

\* the visuals of an input section once its legacy visual is migrated
MigratedVisuals(section) ==
    (IF IsArray(Get(section, "visuals")) THEN Get(section, "visuals").a ELSE <<>>)
    \o (IF Truthy(Get(section, "visual")) THEN <<Get(section, "visual")>> ELSE <<>>)

HasVisualsList(section) ==
    IsArray(Get(section, "visuals")) \/ IsNullish(Get(section, "visuals"))

RECURSIVE VisualsOfMembers(_, _)
VisualsOfMembers(key, k) ==
    IF k > Len(InSections) THEN <<>>
    ELSE (IF TitleKey(InSections[k]) = key THEN MigratedVisuals(InSections[k]) ELSE <<>>)
         \o VisualsOfMembers(key, k + 1)

\* C8: a retained section's visuals are the migrated visuals of the sections
\* merged into it, first section's first, so their number is the sum.
C8_VisualsConserved ==
    Returned =>
        \A i \in 1..Len(OutSections) :
            (\A k \in Members(TitleKey(OutSections[i])) : HasVisualsList(InSections[k]))
                => Get(OutSections[i], "visuals")
                      = Arr(VisualsOfMembers(TitleKey(OutSections[i]), 1))

C8_Witness ==
    /\ Returned
    /\ Len(InSections) = 2
    /\ Len(OutSections) = 1
    /\ Len(MigratedVisuals(InSections[1])) = 1
    /\ Len(MigratedVisuals(InSections[2])) = 2
    /\ Len(Get(OutSections[1], "visuals").a) = 3

\* C9: sanitizeData applied to a document it returned yields the same document.
C9_Idempotent == sPc = "twice" => sOut2 = sOut

C9_Witness ==
    /\ sPc = "twice"
    /\ Len(InSections) = 2
    /\ Len(OutSections) = 1
    /\ \E k \in 1..2 : ~Truthy(Get(InSections[k], "id"))
    /\ \E k \in 1..2 : Truthy(Get(InSections[k], "visual"))
    /\ sOut2 = sOut

----------------------------------------------------------------------------
(* Properties of parseJsonResponse *)

Terminal == pPc \in {"SUCCESS", "FAILURE"}

\* C4: for every reply text, parseJsonResponse ends by returning either a
\* poster document or the one fixed diagnostic {error: message}; it never ends
\* with an exception, and a failure carries no document.
C4_DocumentOrError ==
    /\ pPc = "SUCCESS" => pResult.kind = "document" /\ pResult.doc.t = "object"
    /\ pPc = "FAILURE" => pResult = [kind |-> "error", error |-> FormattingMessage]
    /\ ~Terminal => pResult = [kind |-> "none"]

\* the exception was raised inside normalization, on both attempts
C4_Witness ==
    /\ pPc = "FAILURE" /\ pStrict = "ok" /\ pParses = 2
    /\ pResult = [kind |-> "error", error |-> FormattingMessage]

\* C10: the repair rules are applied only when the strict JSON.parse threw;
\* when the strict parse succeeds the call ends in SUCCESS with no repair.
C10_RepairOnlyAfterParseFailure ==
    pStrict = "ok" => ~pRepairRan /\ pPc # "FAILURE"

\* Where a cut after the first n characters of a well-formed object text d
\* falls. One character read outside or inside a string literal: st holds
\* inStr, esc (a backslash is pending), hex (digits of a \u escape still to
\* come), key (the string read last is a member name), open (the open
\* containers, innermost last), last and lastAt (the last character outside
\* white space and string bodies, and its index).
cutRead(d, i, st) ==
    LET c == Ch(d, i) IN
    IF st.inStr
    THEN IF st.esc THEN [st EXCEPT !.esc = FALSE, !.hex = IF c = "u" THEN 4 ELSE 0]
         ELSE IF st.hex > 0 THEN [st EXCEPT !.hex = st.hex - 1]
         ELSE IF c = "\\" THEN [st EXCEPT !.esc = TRUE]
         ELSE IF c = "\"" THEN [st EXCEPT !.inStr = FALSE, !.last = c, !.lastAt = i]
         ELSE st
    ELSE IF IsSpace(c) THEN st
    ELSE IF c = "\""
         THEN [st EXCEPT !.inStr = TRUE,
                         !.key = /\ Len(st.open) > 0
                                 /\ st.open[Len(st.open)] = "{"
                                 /\ st.last \in {"{", ","}]
    ELSE IF c \in {"{", "["}
         THEN [st EXCEPT !.open = Append(st.open, c), !.last = c, !.lastAt = i]
    ELSE IF c \in {"}", "]"}
         THEN [st EXCEPT !.open = SubSeq(st.open, 1, Len(st.open) - 1),
                         !.last = c, !.lastAt = i]
    ELSE [st EXCEPT !.last = c, !.lastAt = i]

\* the characters lo .. hi of d read in order from state st, which is the state
\* after the characters before lo
RECURSIVE cutFold(_, _, _, _)
cutFold(d, lo, hi, st) ==
    IF lo > hi \/ st.lastAt >= lo THEN st
    ELSE IF lo = hi THEN cutRead(d, lo, st)
    ELSE LET mid == (lo + hi) \div 2
         IN  cutFold(d, mid + 1, hi, cutFold(d, lo, mid, st))

CutState(d, n) ==
    cutFold(d, 1, n, [inStr |-> FALSE, esc |-> FALSE, hex |-> 0, key |-> FALSE,
                      open |-> <<>>, last |-> "", lastAt |-> 0])

EndsWith(d, q, word) == q >= Len(word) /\ SubSeq(d, q - Len(word) + 1, q) = word

\* the cut leaves a text that closing the open string and containers completes:
\* it falls inside a string value outside any escape sequence, or (white space
\* aside) right after an opening brace or bracket or right after a complete
\* value: a closing brace or bracket, the closing quote of a string value, a
\* digit of a number, or the last letter of true, false or null
RecoverableCut(d, n) ==
    LET st == CutState(d, n) IN
    IF st.inStr THEN ~st.key /\ ~st.esc /\ st.hex = 0
    ELSE \/ st.last \in {"{", "[", "}", "]"}
         \/ st.last = "\"" /\ ~st.key
         \/ st.last \in DigitSet
         \/ \E word \in {"true", "false", "null"} : EndsWith(d, st.lastAt, word)

Truncated == pOrigin.kind = "truncated" /\ pStrict # "none"

\* C6 as stated: for a well-formed object text cut at any offset inside its
\* body, the text extractBalancedJSON returns is parseable JSON.
C6_TruncationRecovery == Truncated => pStrict = "ok"

\* C6 amended: for a well-formed object text cut at a recoverable offset
\* the text extractBalancedJSON returns is parseable JSON.
C6_RecoverableTruncation ==
    Truncated /\ RecoverableCut(pOrigin.doc, pOrigin.at) => pStrict = "ok"

\* the cut inside the content string of the first of two sections: a quote and
\* the three closers, innermost first, are appended
C6_Witness ==
    /\ Truncated /\ RecoverableCut(pOrigin.doc, pOrigin.at)
    /\ pText = Q("{'title': 'Foo', 'sections': [{'title':'A','content':'x")
    /\ pClean = pText \o Q("'}]}")
    /\ pStrict = "ok"

\* the recoverable cuts are exactly the cuts that are recovered
C6_OnlyRecoverable ==
    Truncated /\ ~RecoverableCut(pOrigin.doc, pOrigin.at) => pStrict = "threw"

\* how far a call has come: every statement of parseJsonResponse is later in
\* the text than the one before it
Progress(pc) ==
    CASE pc = "START"             -> 0
      [] pc = "STRICT_PARSE"      -> 1
      [] pc = "NORMALIZE"         -> 2
      [] pc = "RETRY_WITH_REPAIR" -> 3
      [] pc = "REPARSE"           -> 4
      [] pc = "RENORMALIZE"       -> 5
      [] OTHER                    -> 6

\* C11: every call of parseJsonResponse moves only forward to SUCCESS or
\* FAILURE, with at most two JSON.parse attempts; the repair rules run at most
\* once, and a re-parse that throws goes straight to FAILURE, never back.
C11_EndsWithinTwoParses ==
    /\ [](/\ pParses <= 2
          /\ Terminal => pParses \in {1, 2}
          /\ pPc = "FAILURE" => pParses = 2
          /\ pRepairRan => pPc # "RETRY_WITH_REPAIR")
    /\ [][Progress(pPc') > Progress(pPc)]_vars
    /\ [][pPc = "REPARSE" /\ jsonParse(pFixed).threw => pPc' = "FAILURE"]_vars

\* a re-parse of the repaired text that threw, ending the call
C11_Witness ==
    /\ pPc = "FAILURE" /\ pStrict = "threw" /\ pRepairRan /\ pParses = 2
    /\ pRaw = Undef

\* the reply of Scenario 1: the comma between the two sections is missing
Scenario1 ==
    Q("{'title': 'Foo', 'sections': [{'title':'A','content':'x'} {'title':'B','content':'y'}]}")

\* the reply is a well-formed document from which the comma between two
\* adjacent objects of an array was removed
ObjectCommaMissing ==
    /\ pOrigin.kind = "deleted"
    /\ Ch(pOrigin.doc, pOrigin.at) = ","
    /\ Ch(pOrigin.doc, pOrigin.at - 1) = "}"
    /\ Ch(pOrigin.doc, SkipSpace(pOrigin.doc, pOrigin.at + 1)) = "{"

\* the titles of the sections of a returned document, in order
ResultTitles ==
    [i \in 1..Len(SectionsOf(pResult.doc)) |-> Get(SectionsOf(pResult.doc)[i], "title")]

\* C12: a reply that is valid JSON except for a missing comma between two
\* adjacent objects of an array is recovered by the repair pass; the reply of
\* Scenario 1 yields exactly the two sections titled "A" and "B".
C12_MissingCommaRecovered ==
    /\ pText = Scenario1 /\ Terminal =>
          /\ pPc = "SUCCESS"
          /\ pRepairRan
          /\ ResultTitles = <<Str("A"), Str("B")>>
    /\ ObjectCommaMissing /\ pOrigin.doc \in PosterReplies /\ Terminal => pPc = "SUCCESS"

\* the reply of Scenario 2: cut inside the content of the first section
Scenario2 == Q("{'title': 'Foo', 'sections': [{'title':'A','content':'x")

\* the closers of the open containers, innermost first
RECURSIVE ClosersOf(_)
ClosersOf(open) ==
    IF open = <<>> THEN ""
    ELSE (IF open[Len(open)] = "{" THEN "}" ELSE "]")
         \o ClosersOf(SubSeq(open, 1, Len(open) - 1))

\* what has to follow the first n characters of d to close them
ExpectedSuffix(d, n) ==
    LET st == CutState(d, n)
    IN  (IF st.inStr THEN "\"" ELSE "") \o ClosersOf(st.open)

\* C13: when the input ends with structures still open, extractBalancedJSON
\* returns the input unchanged, followed by one closing quote if the input ends
\* inside a string literal and then one closer per open container, innermost
\* first; the reply of Scenario 2 gets the suffix "}]} and parses to one
\* section with content "x".
C13_ClosersAppended ==
    /\ pOrigin.kind = "truncated" /\ pPc # "START" =>
          pClean = trim(pText) \o ExpectedSuffix(pOrigin.doc, pOrigin.at)
    /\ pText = Scenario2 /\ Terminal =>
          /\ pClean = Scenario2 \o Q("'}]}")
          /\ pPc = "SUCCESS"
          /\ Len(SectionsOf(pResult.doc)) = 1
          /\ Get(SectionsOf(pResult.doc)[1], "content") = Str("x")

\* the call on the reply of Scenario 2 has returned its document
C13_Witness ==
    /\ pText = Scenario2 /\ pPc = "SUCCESS" /\ ~pRepairRan
    /\ ResultTitles = <<Str("A")>>


----------------------------------------------------------------------------
\* Properties of the column and visuals normalization

\* the first input section that carries the title of output section i
FirstMember(i) ==
    LET ms == Members(TitleKey(OutSections[i]))
    IN  InSections[CHOOSE k \in ms : \A j \in ms : k <= j]

\* the digit of a column written as "1" or "2", optionally preceded by the word
\* "column" in any letter case and whitespace; "" for any other column
ColumnDigit(column) ==
    IF ~IsString(column) THEN ""
    ELSE LET t == toLowerCase(trim(column.s))
             rest == IF Len(t) >= 6 /\ SubSeq(t, 1, 6) = "column"
                     THEN trim(SubSeq(t, 7, Len(t))) ELSE t
         IN  IF rest \in {"1", "2"} THEN rest ELSE ""

\* C14: every section of a returned document has column "1" or "2", and a
\* section whose column arrived as the digit 1 or 2, optionally preceded by the
\* word "column" in any letter case and whitespace, keeps that digit whatever
\* its title is.
C14_ColumnsNormalized ==
    Returned =>
        \A i \in 1..Len(OutSections) :
            /\ Get(OutSections[i], "column") \in {Str("1"), Str("2")}
            /\ ColumnDigit(Get(FirstMember(i), "column")) # ""
                  => Get(OutSections[i], "column")
                        = Str(ColumnDigit(Get(FirstMember(i), "column")))

C14_Witness ==
    /\ Returned
    /\ Len(OutSections) = 2
    /\ Get(InSections[1], "column") = Str(" COLUMN  2 ")
    /\ includes(toLowerCase(Get(InSections[1], "title").s), "abstract")
    /\ Get(OutSections[1], "column") = Str("2")
    /\ Get(InSections[2], "column") = Str("column1")
    /\ Get(OutSections[2], "column") = Str("1")


\* the column of a section, the word "column" stripped, is neither "1" nor "2"
Unrecognized(section) ==
    trim(replaceColumnWord(ToStr(Get(section, "column")))) \notin {"1", "2"}

\* the title of a section, lower-cased, contains one of the keywords
TitleHas(section, keywords) ==
    /\ IsString(Get(section, "title"))
    /\ \E kw \in keywords : includes(toLowerCase(Get(section, "title").s), kw)

\* the column the title heuristic gives a section under a keyword list
HeuristicColumn(section, keywords) ==
    IF TitleHas(section, keywords) THEN Str("1") ELSE Str("2")

\* C17 (as claimed): a section whose column is not recognized gets "1" when its
\* title contains an introduction, methods or objective keyword and "2" for
\* every other title.
C17_KeywordHeuristic ==
    Returned =>
        \A i \in 1..Len(OutSections) :
            Unrecognized(FirstMember(i))
                => Get(OutSections[i], "column")
                      = HeuristicColumn(FirstMember(i), {"intro", "method", "objective"})

\* C17 (amended): a section whose column is not recognized gets "1" when its
\* lower-cased title contains abstract, intro, method or objective and "2" for
\* every other title, a missing title included.
C17_KeywordHeuristicWithAbstract ==
    Returned =>
        \A i \in 1..Len(OutSections) :
            Unrecognized(FirstMember(i))
                => Get(OutSections[i], "column")
                      = HeuristicColumn(FirstMember(i),
                                        {"abstract", "intro", "method", "objective"})

C17_Witness ==
    /\ Returned
    /\ Len(OutSections) = 2
    /\ Get(InSections[1], "title") = Str("Abstract and aims")
    /\ Unrecognized(InSections[1])
    /\ Get(OutSections[1], "column") = Str("1")
    /\ Get(InSections[2], "title") = Str("Results")
    /\ Unrecognized(InSections[2])
    /\ Get(OutSections[2], "column") = Str("2")

HasField(section, name) == IsObject(section) /\ name \in DOMAIN section.f

\* the visuals a section arrived with, when they are a list
ArrivedVisuals(section) ==
    IF IsArray(Get(section, "visuals")) THEN Get(section, "visuals").a ELSE <<>>

\* C18: no section of a returned document has a visual field, every section
\* has a visuals list, and a section that arrived with a visual (and was not
\* merged with another) has it as the last of its visuals, after the ones it
\* arrived with.
C18_VisualMigrated ==
    Returned =>
        \A i \in 1..Len(OutSections) :
            /\ ~HasField(OutSections[i], "visual")
            /\ IsArray(Get(OutSections[i], "visuals"))
            /\ ( /\ Cardinality(Members(TitleKey(OutSections[i]))) = 1
                 /\ HasField(FirstMember(i), "visual") )
                  => Get(OutSections[i], "visuals")
                        = Arr(Append(ArrivedVisuals(FirstMember(i)),
                                     Get(FirstMember(i), "visual")))

\* the index of the first input section that carries the title of output
\* section i
FirstIndex(i) == MinOf(Members(TitleKey(OutSections[i])))

\* C19: the output sections stand in the order in which their normalized
\* titles first occur in the input, and each output section is the first input
\* section with that title: it has that section's title as written and its id
\* when it arrived with one.
C19_FirstSeenOrder ==
    Returned =>
        /\ \A i, j \in 1..Len(OutSections) : i < j => FirstIndex(i) < FirstIndex(j)
        /\ \A i \in 1..Len(OutSections) :
              /\ Get(OutSections[i], "title") = Get(InSections[FirstIndex(i)], "title")
              /\ Truthy(Get(InSections[FirstIndex(i)], "id"))
                    => Get(OutSections[i], "id") = Get(InSections[FirstIndex(i)], "id")

C19_Witness ==
    /\ Returned
    /\ Len(InSections) = 2
    /\ Get(InSections[1], "title") = Str("Intro")
    /\ Get(InSections[2], "title") = Str("RESULTS")
    /\ Len(OutSections) = 2
    /\ Get(OutSections[1], "title") = Str("Intro")
    /\ Get(OutSections[2], "id") = Str("s4")

----------------------------------------------------------------------------
(* Properties of the earlier sanitizeData (checked under SpecSanitizeEarlier) *)

\* a title or content after trimming and lower-casing; Undef when missing
FoldedText(value) == IF IsString(value) THEN Str(toLowerCase(trim(value.s))) ELSE Undef

\* the dedup key of a section: the pair of its folded title and content
PairKey(section) ==
    <<FoldedText(Get(section, "title")), FoldedText(Get(section, "content"))>>

\* the input sections no earlier section shares the dedup key of
FirstOfPair ==
    {k \in 1..Len(InSections) :
        \A j \in 1..(k - 1) : PairKey(InSections[j]) # PairKey(InSections[k])}

\* C20: the earlier generation keeps exactly the sections that no earlier
\* section matches in both folded title and folded content, so two sections
\* with one title and different contents are both kept.
C20_PairKeyDedup ==
    Returned /\ IsArray(Get(sData, "sections")) =>
        /\ Len(OutSections) = Cardinality(FirstOfPair)
        /\ \A k \in FirstOfPair :
              \E i \in 1..Len(OutSections) : PairKey(OutSections[i]) = PairKey(InSections[k])

----------------------------------------------------------------------------
(* Properties of extractBalancedJSON (checked under SpecScan) *)

\* the later generation's run returned from inside the loop
ScanCompleted == xPc = "done" /\ xGen = "later" /\ xScan.complete

\* the later generation's extractor as one operator and as a loop agree
ScanAgrees == xPc = "done" /\ xGen = "later" => xOut = extractBalancedJSON(xStr)

\* C15: the scan goes on only while the stack is not empty, it returns at the
\* character that empties the stack, and what it returns is the text from the
\* first opening brace to that character inclusive: prose before a well-formed
\* object and everything after it are dropped.
C15_ObjectSubstring ==
    /\ xPc = "scan" /\ xGen = "later" /\ xI > 0 => Len(xScan.stack) > 0
    /\ ScanCompleted =>
          /\ Len(xScan.stack) = 0
          /\ xOut = SubSeq(xStr, indexOf(xStr, "{") + 1, indexOf(xStr, "{") + xI + 1)
    /\ xPc = "done" /\ xGen = "later" =>
          \A d \in ValidReplies : xStr = Prose \o d \o " Enjoy!" => xOut = d

C15_Witness ==
    /\ ScanCompleted
    /\ xStr = Q("{'a':'x{y}[z]','b':[1,{'c':']'}]} tail }")
    /\ xOut = Q("{'a':'x{y}[z]','b':[1,{'c':']'}]}")

\* the open delimiters the scanner holds: the stack, or the two counters
Delims == IF xGen = "later" THEN xScan.stack ELSE <<xScan.openBraces, xScan.openBrackets>>

\* the character the next loop iteration reads
NextChar == Ch(JsonStr, xI + 1)

\* the number of backslashes that end at index n of s without a gap
RECURSIVE BackslashRun(_, _)
BackslashRun(s, n) ==
    IF n >= 1 /\ Ch(s, n) = "\\" THEN 1 + BackslashRun(s, n - 1) ELSE 0

Scanning == xPc = "scan" /\ xI < Len(JsonStr)

\* C16: a character read inside a string literal never changes the open
\* delimiters, a quote read inside a string literal right after an unescaped
\* backslash leaves the scanner inside the string, and the open delimiters
\* change only when a brace or bracket is read outside a string.
C16_StringAware ==
    /\ [][Scanning /\ xScan.inString => Delims' = Delims]_vars
    /\ [][Scanning /\ xScan.inString /\ NextChar = "\""
            /\ BackslashRun(JsonStr, xI) % 2 = 1 => xScan'.inString]_vars
    /\ [][Delims' # Delims =>
            Scanning /\ ~xScan.inString /\ NextChar \in {"{", "[", "}", "]"}]_vars

C16_Witness ==
    /\ xPc = "scan" /\ xGen = "later"
    /\ xScan.inString
    /\ Ch(JsonStr, xI) = "{"
    /\ xScan.stack = <<"}">>
    /\ \E k \in 2..xI : SubSeq(JsonStr, k - 1, k) = "\\\""


\* C30: on every text the earlier generation's extractor (counters) returns
\* what the later generation's extractor (closer stack) returns.
C30_GenerationsAgree ==
    xPc = "done" /\ xGen = "earlier" => xOut = extractBalancedJSON(xStr)


----------------------------------------------------------------------------
(* Properties of useHistory (checked under SpecHistory) *)

\* C21: set(v) with v not the present puts the old present at the end of past,
\* makes v the present and empties future; set(v) with v the present changes
\* nothing.
C21_SetPushes ==
    hOp.op = "set" =>
        IF hOp.arg = hPrev.present
        THEN History = hPrev
        ELSE /\ hPast = Append(hPrev.past, hPrev.present)
             /\ hPresent = hOp.arg
             /\ hFuture = <<>>

C21_Witness ==
    /\ hOp.op = "set"
    /\ hOp.arg # hPrev.present
    /\ Len(hPrev.past) = 1
    /\ Len(hPrev.future) = 1
    /\ Len(hPast) = 2
    /\ hFuture = <<>>

\* C22: update(v) replaces the present and leaves past and future as they
\* were, so canUndo and canRedo do not change.
C22_UpdateFrame ==
    hOp.op = "update" =>
        /\ hPresent = hOp.arg
        /\ hPast = hPrev.past
        /\ hFuture = hPrev.future
        /\ canUndo = (Len(hPrev.past) > 0)
        /\ canRedo = (Len(hPrev.future) > 0)

C22_Witness ==
    /\ hOp.op = "update"
    /\ hPresent # hPrev.present
    /\ canUndo
    /\ canRedo

\* C23: snapshot() puts the present at the end of past, keeps the present and
\* empties future; an undo that follows a snapshot and any number of updates
\* makes the present what it was at the snapshot.
C23_SnapshotThenUndo ==
    /\ hOp.op = "snapshot" =>
          /\ hPast = Append(hPrev.past, hPrev.present)
          /\ hPresent = hPrev.present
          /\ hFuture = <<>>
    /\ hMark.undone => hPresent = hMark.value

C23_Witness ==
    /\ hMark.undone
    /\ hOp.op = "undo"
    /\ hPrev.present # hMark.value
    /\ hPresent = hMark.value
    /\ Len(hPast) = 1

\* C24: undo then redo from a history with a non-empty past, and redo then undo
\* from a history with a non-empty future, give back the history they started
\* from.
C24_RoundTrip ==
    /\ [][hOp.op = "undo" /\ Len(hPrev.past) > 0 /\ hOp'.op = "redo"
            => History' = hPrev]_vars
    /\ [][hOp.op = "redo" /\ Len(hPrev.future) > 0 /\ hOp'.op = "undo"
            => History' = hPrev]_vars

C24_Witness ==
    /\ hOp.op = "redo"
    /\ Len(hPast) = 2
    /\ Len(hFuture) = 1
    /\ hPrev = undo(History)
    /\ hPast[2] # hPresent

\* the whole line of snapshots: past, then the present, then future
Timeline(h) == h.past \o <<h.present>> \o h.future

\* C25: undo and redo leave past ++ [present] ++ future as it was and move the
\* present one place back or forward; with nothing to undo or redo they
\* change nothing.
C25_TimelineKept ==
    /\ hOp.op = "undo" =>
          /\ Timeline(History) = Timeline(hPrev)
          /\ Len(hPast) = (IF Len(hPrev.past) = 0 THEN 0 ELSE Len(hPrev.past) - 1)
    /\ hOp.op = "redo" =>
          /\ Timeline(History) = Timeline(hPrev)
          /\ Len(hFuture) = (IF Len(hPrev.future) = 0 THEN 0 ELSE Len(hPrev.future) - 1)

C25_Witness ==
    /\ hOp.op = "undo"
    /\ Len(hPrev.past) = 2
    /\ Len(hPrev.future) = 1
    /\ Len(hPast) = 1
    /\ Len(hFuture) = 2
    /\ hFuture[1] = hPrev.present


----------------------------------------------------------------------------
(* Properties of App (checked under SpecApp) *)

\* C26: while a chat session is set and the present is a document, no undo,
\* redo, set, update or snapshot makes the present null.
C26_DocumentStays ==
    [][aChat /\ IsDoc(hPresent) /\ aChat'
         /\ hOp'.op \in {"undo", "redo", "set", "update", "snapshot"}
         => IsDoc(hPresent')]_vars

\* C27: when a revision completes, the document shown is the one saved in
\* versions at currentVersionIndex, and every other saved version is what it
\* was.
C27_RevisionStoredInCurrent ==
    [][aLast' = "ReviseDone" =>
          /\ Len(aVersions') = Len(aVersions)
          /\ aIndex' < Len(aVersions')
          /\ aVersions'[aIndex' + 1] = hPresent'
          /\ \A k \in 1..Len(aVersions) : k # aIndex' + 1 => aVersions'[k] = aVersions[k]]_vars

\* C28: from Start Over until the next Generate the present is null and the
\* versions list is empty.
C28_StartOverStays ==
    aReset => hPresent = NullDoc /\ aVersions = <<>>

(***************************************************************************)
(* Properties of PosterDisplay (checked under SpecDrag)                    *)
(***************************************************************************)

Dropped == dDrop.handler \in {"handleDropSection", "handleDropToColumnBackground"}

\* how many cards of the list carry the id
IdCount(list, id) == Cardinality({i \in 1..Len(list) : list[i].id = id})

\* the cards of the list other than the one with the title, in order
CardsBut(list, title) ==
    LET other(s) == s.title # title IN SelectSeq(list, other)

\* C29: after handleDropSection or handleDropToColumnBackground the list has
\* the same sections by id as before, every card other than the dragged one
\* is unchanged and the others keep their relative order, and the dragged
\* card is still there once, with its id.
C29_ReorderKeepsSections ==
    Dropped =>
        /\ Len(dSections) = Len(dPrev)
        /\ \A id \in DragIds : IdCount(dSections, id) = IdCount(dPrev, id)
        /\ IF dDrop.grabbed = 0 THEN dSections = dPrev
           ELSE LET dragged == dPrev[dDrop.grabbed]
                IN  /\ CardsBut(dSections, dragged.title) = CardsBut(dPrev, dragged.title)
                    /\ \E i \in 1..Len(dSections) :
                          /\ dSections[i].title = dragged.title
                          /\ dSections[i].id = dragged.id

====
